---- MODULE Spec2Model ----
(***************************************************************************)
(* Model of sbom-tools: the SBOM builder (sbomFromDependencies), the merge *)
(* engine (sbomMerge), the diff engine (sbomDiff), the two format          *)
(* converters and the tool-call boundary in front of them.                 *)
(*                                                                         *)
(* Text that the code inspects character by character (names, versions,    *)
(* purls, SPDX identifiers, licenses) is a sequence of one-character       *)
(* strings, so that concatenation, sanitizing, percent-encoding, lower-    *)
(* casing and collation are computed and not assumed.  Fixed tags that the *)
(* code only compares as a whole (bomFormat, format, type, ...) are plain  *)
(* strings.  An absent optional field holds Undefined.                     *)
(***************************************************************************)
EXTENDS Integers, Sequences, FiniteSets, TLC

VARIABLES
    pc,            \* "ready" before the call, "done" after it
    entry,         \* the entry point that answered; before the call of a tool
                   \* request, the tool name the request carries
    sboms,         \* merge: the input documents
    format,        \* merge / create: the requested output format
    deps,          \* create: the dependency list
    oldSbom,       \* diff: the old document
    newSbom,       \* diff: the new document
    component,     \* converters: the component-centric component
    index,         \* converters: the package index
    pkg,           \* converters: the package made from component
    heap,          \* the objects the call can reach, by reference (object-level
                   \* specification only; empty elsewhere)
    loops,         \* the loops the call is in and has yet to run, the running
                   \* one last (step-level specification only; empty elsewhere)
    req,           \* HTTP server: the request received
    res,           \* HTTP server: the responses written for the request, in order
    result         \* the envelope (or converted value) returned by the call

vars == <<pc, entry, sboms, format, deps, oldSbom, newSbom, component, index, pkg, heap,
          loops, req, res, result>>

----------------------------------------------------------------------------
(* Bounds of the model *)

MaxDocs == 2
MaxEntries == 2
MaxDeps == 2
MaxDiffEntries == 2
MaxIndex == 2

----------------------------------------------------------------------------
(* Text *)

\* an absent optional text field
Undefined == <<"undefined">>
\* an absent optional list field (licenses, externalRefs): every reader in the
\* code treats an absent list like an empty one (?.find, && length > 0)
NoList == <<>>
\* the value of a variable that the running operation does not use
None == <<"none">>

LowerLetters == {"a","b","c","d","e","f","g","h","i","j","k","l","m",
                 "n","o","p","q","r","s","t","u","v","w","x","y","z"}
UpperLetters == {"A","B","C","D","E","F","G","H","I","J","K","L","M",
                 "N","O","P","Q","R","S","T","U","V","W","X","Y","Z"}
Digits == {"0","1","2","3","4","5","6","7","8","9"}

SeqsUpTo(S, n) == UNION {[1..k -> S] : k \in 0..n}

\* JavaScript truthiness of an optional string: undefined and "" are falsy
Truthy(s) == s # Undefined /\ s # <<>>

DigitChar(d) == <<"0","1","2","3","4","5","6","7","8","9">>[d + 1]

RECURSIVE NumToString(_)
NumToString(n) == IF n < 10 THEN <<DigitChar(n)>>
                  ELSE NumToString(n \div 10) \o <<DigitChar(n % 10)>>

PkgPrefix == <<"p","k","g",":">>
SpdxRefPackage == <<"S","P","D","X","R","e","f","-","P","a","c","k","a","g","e","-">>
NOASSERTION == <<"N","O","A","S","S","E","R","T","I","O","N">>

----------------------------------------------------------------------------
(* Insertion-ordered Map: a sequence of [key, val] records, keys distinct *)

MapHas(m, k) == \E i \in 1..Len(m) : m[i].key = k

MapGet(m, k) == IF MapHas(m, k)
                THEN m[CHOOSE i \in 1..Len(m) : m[i].key = k].val
                ELSE Undefined

MapSet(m, k, v) ==
    IF MapHas(m, k)
    THEN [i \in 1..Len(m) |-> IF m[i].key = k THEN [key |-> k, val |-> v] ELSE m[i]]
    ELSE Append(m, [key |-> k, val |-> v])

\* the values in reverse insertion order
MapValuesReversed(m) == [i \in 1..Len(m) |-> m[Len(m) + 1 - i].val]

\* Array.from(map.values())
MapValues(m) == [i \in 1..Len(m) |-> m[i].val]

----------------------------------------------------------------------------
(* Format classification *)

\* a test that takes every document with a bomFormat tag for component-centric
IsCycloneDxSbomAnyTag(sbom) == "bomFormat" \in DOMAIN sbom

isCycloneDxSbom(sbom) == "bomFormat" \in DOMAIN sbom /\ sbom.bomFormat = "CycloneDX"

isSpdxSbom(sbom) == "spdxVersion" \in DOMAIN sbom /\ sbom.spdxVersion = "SPDX-2.3"

----------------------------------------------------------------------------
(* Response envelopes *)

Timestamps == {"2024-01-01T00:00:00.000Z", "2024-01-02T00:00:00.000Z"}
Uuids == {"uuid-1", "uuid-2"}

\* a success envelope with the meta block of the failure envelope
SuccessEnvelopeErrorMeta(data, timestamp) ==
    [ok |-> TRUE,
     data |-> data,
     meta |-> [retrieved_at |-> timestamp]]

SuccessEnvelope(data, timestamp) ==
    [ok |-> TRUE,
     data |-> data,
     meta |-> [source |-> "sbom-tools",
               retrieved_at |-> timestamp,
               pagination |-> [next_cursor |-> "null"],
               warnings |-> <<>>]]

\* the messages of the exceptions the operations raise: the TypeError of a
\* for-of loop over a missing list, the URIError of encodeURIComponent
NotIterable == "sbom.components is not iterable / sbom.packages is not iterable"
UriMalformed == "URI malformed"

\* a failure envelope that keeps only the first part of its message
ErrorEnvelopeWithoutCause(code, message, timestamp) ==
    [ok |-> FALSE,
     error |-> [code |-> code, message |-> SubSeq(message, 1, 1), details |-> <<>>],
     meta |-> [retrieved_at |-> timestamp]]

\* message: the parts of the template literal, in order
ErrorEnvelope(code, message, timestamp) ==
    [ok |-> FALSE,
     error |-> [code |-> code, message |-> message, details |-> <<>>],
     meta |-> [retrieved_at |-> timestamp]]

\* the envelope a tool handler builds when safeParse fails; details is
\* parseResult.error.flatten(): the argument fields that have errors
ValidationErrorEnvelope(fieldErrors, timestamp) ==
    [ok |-> FALSE,
     error |-> [code |-> "INVALID_INPUT",
                message |-> <<"Invalid input parameters">>,
                details |-> [formErrors |-> <<>>, fieldErrors |-> fieldErrors]],
     meta |-> [retrieved_at |-> timestamp]]

ToolMetadata == [vendor |-> "Dedalus Labs", name |-> "sbom-tools", version |-> "1.0.0"]

----------------------------------------------------------------------------
(* Merge engine *)

componentKey(name, version) == name \o <<"@">> \o version

SpdxIdChars == LowerLetters \cup UpperLetters \cup Digits \cup {".", "-"}

sanitizeSpdxId(input) ==
    [i \in 1..Len(input) |-> IF input[i] \in SpdxIdChars THEN input[i] ELSE "-"]

\* the same loop without its has() guard: every occurrence overwrites
RECURSIVE ExtractCdxLastWins(_, _, _)
ExtractCdxLastWins(components, i, acc) ==
    IF i > Len(components) THEN acc
    ELSE LET c == components[i]
             key == componentKey(c.name, c.version)
         IN ExtractCdxLastWins(components, i + 1, MapSet(acc, key, c))

\* for (const component of sbom.components) { if (!has(key)) set(key, component) }
RECURSIVE ExtractCdxFrom(_, _, _)
ExtractCdxFrom(components, i, acc) ==
    IF i > Len(components) THEN acc
    ELSE LET c == components[i]
             key == componentKey(c.name, c.version)
         IN ExtractCdxFrom(components, i + 1,
                           IF MapHas(acc, key) THEN acc ELSE MapSet(acc, key, c))

extractCycloneDxComponents(sbom) == ExtractCdxFrom(sbom.components, 1, <<>>)

RECURSIVE ExtractSpdxFrom(_, _, _)
ExtractSpdxFrom(packages, i, acc) ==
    IF i > Len(packages) THEN acc
    ELSE LET p == packages[i]
             key == componentKey(p.name, p.versionInfo)
         IN ExtractSpdxFrom(packages, i + 1,
                            IF MapHas(acc, key) THEN acc ELSE MapSet(acc, key, p))

extractSpdxPackages(sbom) == ExtractSpdxFrom(sbom.packages, 1, <<>>)

\* externalRefs?.find((ref) => ref.referenceType === 'purl')
FindPurlRefWrongType(externalRefs) ==
    IF \E i \in 1..Len(externalRefs) : externalRefs[i].referenceType = "package-url"
    THEN CHOOSE i \in 1..Len(externalRefs) : externalRefs[i].referenceType = "package-url"
    ELSE 0

\* the position of the first match, 0 when there is none
FindPurlRef(externalRefs) ==
    IF \E i \in 1..Len(externalRefs) : externalRefs[i].referenceType = "purl"
    THEN CHOOSE i \in 1..Len(externalRefs) :
            /\ externalRefs[i].referenceType = "purl"
            /\ \A j \in 1..(i - 1) : externalRefs[j].referenceType # "purl"
    ELSE 0

cycloneDxToSpdxPackage(c, idx) ==
    LET licenseId ==
            IF Len(c.licenses) > 0
            THEN LET license == c.licenses[1]
                 IN IF Truthy(license.id) THEN license.id
                    ELSE IF Truthy(license.name) THEN license.name
                    ELSE NOASSERTION
            ELSE NOASSERTION
    IN [name |-> c.name,
        SPDXID |-> SpdxRefPackage \o sanitizeSpdxId(c.name) \o <<"-">> \o NumToString(idx),
        downloadLocation |-> NOASSERTION,
        versionInfo |-> c.version,
        filesAnalyzed |-> FALSE,
        externalRefs |-> IF Truthy(c.purl)
                         THEN <<[referenceCategory |-> "PACKAGE-MANAGER",
                                 referenceType |-> "purl",
                                 referenceLocator |-> c.purl]>>
                         ELSE NoList,
        licenseConcluded |-> licenseId,
        licenseDeclared |-> licenseId]

spdxToCycloneDxComponent(p) ==
    LET purlRef == FindPurlRef(p.externalRefs)
    IN [type |-> "library",
        name |-> p.name,
        version |-> p.versionInfo,
        bomref |-> p.name \o <<"@">> \o p.versionInfo,
        purl |-> IF purlRef # 0 THEN p.externalRefs[purlRef].referenceLocator ELSE Undefined,
        licenses |-> IF Truthy(p.licenseDeclared) /\ p.licenseDeclared # NOASSERTION
                     THEN <<[id |-> p.licenseDeclared, name |-> Undefined]>>
                     ELSE NoList]

\* for (const [key, value] of extracted) { if (!all.has(key)) all.set(key, value) }
RECURSIVE CollectIntoFrom(_, _, _)
CollectIntoFrom(all, extracted, i) ==
    IF i > Len(extracted) THEN all
    ELSE CollectIntoFrom(IF MapHas(all, extracted[i].key) THEN all
                         ELSE MapSet(all, extracted[i].key, extracted[i].val),
                         extracted, i + 1)

CollectIntoNoDedup(all, extracted) == all \o extracted

CollectInto(all, extracted) == CollectIntoFrom(all, extracted, 1)

\* the loop over the input documents, for the component-centric map
RECURSIVE CollectCycloneDx(_, _, _)
CollectCycloneDx(docs, i, all) ==
    IF i > Len(docs) THEN all
    ELSE CollectCycloneDx(docs, i + 1,
            IF isCycloneDxSbom(docs[i])
            THEN CollectInto(all, extractCycloneDxComponents(docs[i]))
            ELSE all)

\* the loop over the input documents, for the package-centric map
RECURSIVE CollectSpdx(_, _, _)
CollectSpdx(docs, i, all) ==
    IF i > Len(docs) THEN all
    ELSE CollectSpdx(docs, i + 1,
            IF ~isCycloneDxSbom(docs[i]) /\ isSpdxSbom(docs[i])
            THEN CollectInto(all, extractSpdxPackages(docs[i]))
            ELSE all)

\* the same loop without its has() guard: a converted package replaces the
\* component with its key
RECURSIVE ConvertToCycloneDxOverwrite(_, _, _)
ConvertToCycloneDxOverwrite(allCdx, allSpdx, i) ==
    IF i > Len(allSpdx) THEN allCdx
    ELSE ConvertToCycloneDxOverwrite(
            MapSet(allCdx, allSpdx[i].key, spdxToCycloneDxComponent(allSpdx[i].val)),
            allSpdx, i + 1)

\* for (const [key, pkg] of allSpdxPackages) if (!has(key)) set(key, spdxToCycloneDxComponent(pkg))
RECURSIVE ConvertToCycloneDx(_, _, _)
ConvertToCycloneDx(allCdx, allSpdx, i) ==
    IF i > Len(allSpdx) THEN allCdx
    ELSE ConvertToCycloneDx(
            IF MapHas(allCdx, allSpdx[i].key) THEN allCdx
            ELSE MapSet(allCdx, allSpdx[i].key, spdxToCycloneDxComponent(allSpdx[i].val)),
            allSpdx, i + 1)

\* the same loop with let index = 0
RECURSIVE ConvertToSpdxRestart(_, _, _, _)
ConvertToSpdxRestart(allSpdx, allCdx, i, idx) ==
    LET start == IF i = 1 THEN 0 ELSE idx
    IN IF i > Len(allCdx) THEN allSpdx
       ELSE IF MapHas(allSpdx, allCdx[i].key)
       THEN ConvertToSpdxRestart(allSpdx, allCdx, i + 1, start)
       ELSE ConvertToSpdxRestart(MapSet(allSpdx, allCdx[i].key,
                                        cycloneDxToSpdxPackage(allCdx[i].val, start)),
                                 allCdx, i + 1, start + 1)

\* let index = allSpdxPackages.size; for (...) if (!has(key)) set(key, cycloneDxToSpdxPackage(c, index++))
RECURSIVE ConvertToSpdx(_, _, _, _)
ConvertToSpdx(allSpdx, allCdx, i, idx) ==
    IF i > Len(allCdx) THEN allSpdx
    ELSE IF MapHas(allSpdx, allCdx[i].key)
    THEN ConvertToSpdx(allSpdx, allCdx, i + 1, idx)
    ELSE ConvertToSpdx(MapSet(allSpdx, allCdx[i].key,
                              cycloneDxToSpdxPackage(allCdx[i].val, idx)),
                       allCdx, i + 1, idx + 1)

\* iterating a missing components / packages list raises a TypeError
MergeThrows(docs) ==
    \E i \in 1..Len(docs) :
        \/ isCycloneDxSbom(docs[i]) /\ "components" \notin DOMAIN docs[i]
        \/ ~isCycloneDxSbom(docs[i]) /\ isSpdxSbom(docs[i]) /\ "packages" \notin DOMAIN docs[i]

MergedCycloneDxSbom(components, timestamp, uuid) ==
    [bomFormat |-> "CycloneDX",
     specVersion |-> "1.5",
     version |-> 1,
     serialNumber |-> <<"urn:uuid:", uuid>>,
     metadata |-> [timestamp |-> timestamp, tools |-> <<ToolMetadata>>],
     components |-> components]

MergedSpdxSbom(packages, timestamp, uuid) ==
    [spdxVersion |-> "SPDX-2.3",
     dataLicense |-> "CC0-1.0",
     SPDXID |-> "SPDXRef-DOCUMENT",
     name |-> "Merged SBOM",
     documentNamespace |-> <<"https://spdx.org/spdxdocs/", uuid>>,
     creationInfo |-> [created |-> timestamp,
                       creators |-> <<"Tool: Dedalus Labs/sbom-tools-1.0.0">>],
     packages |-> packages]

\* the body of sbomMerge after its check of the empty list
MergeNonEmpty(docs, fmt, timestamp, uuid) ==
    IF MergeThrows(docs)
    THEN ErrorEnvelope("INTERNAL_ERROR", <<"Failed to merge SBOMs: ", NotIterable>>, timestamp)
    ELSE LET allCycloneDxComponents == CollectCycloneDx(docs, 1, <<>>)
             allSpdxPackages == CollectSpdx(docs, 1, <<>>)
         IN IF fmt = "cyclonedx"
            THEN SuccessEnvelope(
                    [sbom |-> MergedCycloneDxSbom(
                        MapValues(ConvertToCycloneDx(allCycloneDxComponents, allSpdxPackages, 1)),
                        timestamp, uuid)],
                    timestamp)
            ELSE SuccessEnvelope(
                    [sbom |-> MergedSpdxSbom(
                        MapValues(ConvertToSpdx(allSpdxPackages, allCycloneDxComponents, 1,
                                                Len(allSpdxPackages))),
                        timestamp, uuid)],
                    timestamp)

sbomMergeNoEmptyCheck(docs, fmt, timestamp, uuid) == MergeNonEmpty(docs, fmt, timestamp, uuid)

sbomMerge(docs, fmt, timestamp, uuid) ==
    IF Len(docs) = 0
    THEN ErrorEnvelope("INVALID_INPUT", <<"At least one SBOM is required for merging">>, timestamp)
    ELSE MergeNonEmpty(docs, fmt, timestamp, uuid)

----------------------------------------------------------------------------
(* Tool-call boundary of the merge tool *)

SbomFormats == {"cyclonedx", "spdx"}

\* CycloneDxSbomSchema / SpdxSbomSchema: the fields the parsers require
CycloneDxSbomSchemaOk(doc) ==
    /\ {"bomFormat", "specVersion", "version", "metadata", "components"} \subseteq DOMAIN doc
    /\ doc.bomFormat = "CycloneDX"
    /\ doc.specVersion = "1.5"

SpdxSbomSchemaOk(doc) ==
    /\ {"spdxVersion", "dataLicense", "SPDXID", "name", "documentNamespace",
        "creationInfo", "packages"} \subseteq DOMAIN doc
    /\ doc.spdxVersion = "SPDX-2.3"
    /\ doc.dataLicense = "CC0-1.0"
    /\ doc.SPDXID = "SPDXRef-DOCUMENT"

SbomSchemaOk(doc) == CycloneDxSbomSchemaOk(doc) \/ SpdxSbomSchemaOk(doc)

SbomMergeInputSchemaOk(docs, fmt) ==
    /\ Len(docs) >= 1
    /\ \A i \in 1..Len(docs) : SbomSchemaOk(docs[i])
    /\ fmt \in SbomFormats

\* the fields of the arguments for which safeParse reports errors
SbomMergeInputErrors(docs, fmt) ==
    (IF Len(docs) >= 1 /\ \A i \in 1..Len(docs) : SbomSchemaOk(docs[i])
     THEN {} ELSE {"sboms"})
    \cup (IF fmt \in SbomFormats THEN {} ELSE {"format"})

\* case 'sbom_merge' of the MCP server's call-tool handler
ServerCallToolMerge(docs, fmt, timestamp, uuid) ==
    IF ~SbomMergeInputSchemaOk(docs, fmt)
    THEN ValidationErrorEnvelope(SbomMergeInputErrors(docs, fmt), timestamp)
    ELSE sbomMerge(docs, fmt, timestamp, uuid)

\* case 'sbom_merge' of the HTTP transport's tools/call
HttpToolsCallMerge(docs, fmt, timestamp, uuid) ==
    IF ~SbomMergeInputSchemaOk(docs, fmt)
    THEN ValidationErrorEnvelope(SbomMergeInputErrors(docs, fmt), timestamp)
    ELSE sbomMerge(docs, fmt, timestamp, uuid)

----------------------------------------------------------------------------
(* Inputs of the merge engine *)

NameA == <<"a">>
NameA1 == <<"a", "@", "1">>
Version1 == <<"1">>
Version11 == <<"1", "@", "1">>
PurlA1 == <<"p","k","g",":","n","p","m","/","a","@","1">>
PurlA11 == <<"p","k","g",":","n","p","m","/","a","%","4","0","1","@","1">>
SpdxIdA1 == SpdxRefPackage \o <<"a", "-", "1">>
SpdxIdA10 == SpdxRefPackage \o <<"a", "-", "1", "-", "0">>

CycloneDxComponent(name, version, purl) ==
    [type |-> "library", name |-> name, version |-> version, purl |-> purl,
     licenses |-> NoList, bomref |-> Undefined]

SpdxPackage(name, version, spdxId, externalRefs) ==
    [name |-> name, SPDXID |-> spdxId, downloadLocation |-> NOASSERTION,
     versionInfo |-> version, filesAnalyzed |-> FALSE, externalRefs |-> externalRefs,
     licenseConcluded |-> Undefined, licenseDeclared |-> Undefined]

PurlRef(purl) ==
    [referenceCategory |-> "PACKAGE-MANAGER", referenceType |-> "purl",
     referenceLocator |-> purl]

\* ("a", "1@1") and ("a@1", "1") are different pairs with the same text
\* name + "@" + version; ("a", "1@1") is in both pools
MergeComponentPool ==
    { CycloneDxComponent(NameA, Version11, Undefined),
      CycloneDxComponent(NameA1, Version1, PurlA11) }

MergePackagePool ==
    { SpdxPackage(NameA, Version1, SpdxIdA1, NoList),
      SpdxPackage(NameA, Version11, SpdxIdA1, <<PurlRef(PurlA1)>>) }

CycloneDxDoc(components) ==
    [bomFormat |-> "CycloneDX", specVersion |-> "1.5", version |-> 1,
     metadata |-> [timestamp |-> "2024-01-01T00:00:00Z"],
     components |-> components]

SpdxDoc(packages) ==
    [spdxVersion |-> "SPDX-2.3", dataLicense |-> "CC0-1.0", SPDXID |-> "SPDXRef-DOCUMENT",
     name |-> "Test SBOM", documentNamespace |-> "https://spdx.org/spdxdocs/test",
     creationInfo |-> [created |-> "2024-01-01T00:00:00Z", creators |-> <<"Tool: test">>],
     packages |-> packages]

\* a document with neither format tag, and a tagged document without its list
UnrecognizedDoc ==
    [bomFormat |-> "cyclonedx",
     components |-> <<CycloneDxComponent(NameA, Version1, PurlA1)>>]

MalformedDoc ==
    [bomFormat |-> "CycloneDX", specVersion |-> "1.5", version |-> 1,
     metadata |-> [timestamp |-> "2024-01-01T00:00:00Z"]]

MergeDocPool ==
    {CycloneDxDoc(cs) : cs \in SeqsUpTo(MergeComponentPool, MaxEntries)}
    \cup {SpdxDoc(ps) : ps \in SeqsUpTo(MergePackagePool, MaxEntries)}
    \cup {UnrecognizedDoc, MalformedDoc}

ToolFormats == SbomFormats \cup {"xml"}

----------------------------------------------------------------------------
(* The merge operation called directly, and through the two tool handlers *)

InitMerge ==
    /\ pc = "ready"
    /\ entry = "none"
    /\ sboms \in SeqsUpTo(MergeDocPool, MaxDocs)
    /\ format \in SbomFormats
    /\ deps = None /\ oldSbom = None /\ newSbom = None
    /\ component = None /\ index = 0 /\ pkg = None
    /\ heap = <<>>
    /\ loops = <<>>
    /\ req = None /\ res = <<>>
    /\ result = None

\* a direct call of sbomMerge; its format parameter is typed SbomFormat
MergeCall ==
    /\ pc = "ready"
    /\ format \in SbomFormats
    /\ \E timestamp \in Timestamps, uuid \in Uuids :
          result' = sbomMerge(sboms, format, timestamp, uuid)
    /\ pc' = "done"
    /\ entry' = "sbomMerge"
    /\ UNCHANGED <<sboms, format, deps, oldSbom, newSbom, component, index, pkg, heap, loops,
                   req, res>>

ServerMergeTool ==
    /\ pc = "ready"
    /\ \E timestamp \in Timestamps, uuid \in Uuids :
          result' = ServerCallToolMerge(sboms, format, timestamp, uuid)
    /\ pc' = "done"
    /\ entry' = "server:sbom_merge"
    /\ UNCHANGED <<sboms, format, deps, oldSbom, newSbom, component, index, pkg, heap, loops,
                   req, res>>

HttpMergeTool ==
    /\ pc = "ready"
    /\ \E timestamp \in Timestamps, uuid \in Uuids :
          result' = HttpToolsCallMerge(sboms, format, timestamp, uuid)
    /\ pc' = "done"
    /\ entry' = "http:sbom_merge"
    /\ UNCHANGED <<sboms, format, deps, oldSbom, newSbom, component, index, pkg, heap, loops,
                   req, res>>

NextMerge == MergeCall

SpecMerge == InitMerge /\ [][NextMerge]_vars

\* the arguments of a merge tool call: short documents, any format word
MergeToolDocPool ==
    {CycloneDxDoc(<<c>>) : c \in MergeComponentPool}
    \cup {SpdxDoc(<<p>>) : p \in MergePackagePool}
    \cup {UnrecognizedDoc, MalformedDoc}

InitMergeTool ==
    /\ pc = "ready"
    /\ entry = "none"
    /\ sboms \in SeqsUpTo(MergeToolDocPool, MaxDocs)
    /\ format \in ToolFormats
    /\ deps = None /\ oldSbom = None /\ newSbom = None
    /\ component = None /\ index = 0 /\ pkg = None
    /\ heap = <<>>
    /\ loops = <<>>
    /\ req = None /\ res = <<>>
    /\ result = None

NextMergeTool == MergeCall \/ ServerMergeTool \/ HttpMergeTool

SpecMergeTool == InitMergeTool /\ [][NextMergeTool]_vars

----------------------------------------------------------------------------
(* Properties of the merge engine *)

MergeEntries == {"sbomMerge", "server:sbom_merge", "http:sbom_merge"}

MergeDone == pc = "done" /\ entry \in MergeEntries

MergeReturnedDocument == MergeDone /\ result.ok

\* the (name, version) pairs listed by a recognized document, in list order
EntryPairsSeq(doc) ==
    IF MergeThrows(<<doc>>) THEN <<>>
    ELSE IF isCycloneDxSbom(doc)
    THEN [i \in 1..Len(doc.components) |-> <<doc.components[i].name, doc.components[i].version>>]
    ELSE IF isSpdxSbom(doc)
    THEN [i \in 1..Len(doc.packages) |-> <<doc.packages[i].name, doc.packages[i].versionInfo>>]
    ELSE <<>>

EntryPairs(doc) == {EntryPairsSeq(doc)[i] : i \in 1..Len(EntryPairsSeq(doc))}

Recognized(doc) == isCycloneDxSbom(doc) \/ isSpdxSbom(doc)

\* C1: the document returned by sbomMerge lists no (name, version) pair twice:
\* any two different positions of its component/package list differ in name
\* or in version, for either output format.
C1_MergeNoDuplicatePair ==
    MergeReturnedDocument =>
        LET out == EntryPairsSeq(result.data.sbom)
        IN \A i, j \in 1..Len(out) : i # j => out[i] # out[j]

\* C1 witness: a merge of two documents that both list the same (name, version)
\* pair has returned a document.
C1_Witness ==
    /\ MergeReturnedDocument
    /\ Len(sboms) = 2
    /\ EntryPairs(sboms[1]) \cap EntryPairs(sboms[2]) # {}
    /\ Len(EntryPairsSeq(result.data.sbom)) >= 1

\* C2: for recognized input documents the set of (name, version) pairs of the
\* merged document equals the union of the pairs of all input documents.
C2_MergeUnionOfPairs ==
    (MergeReturnedDocument /\ \A i \in 1..Len(sboms) : Recognized(sboms[i])) =>
        EntryPairs(result.data.sbom) = UNION {EntryPairs(sboms[i]) : i \in 1..Len(sboms)}

\* C3: a merge of an empty list of documents, called directly or through a
\* tool call, is answered by a failure envelope with code INVALID_INPUT and
\* without a data field.
C3_MergeEmptyIsInvalidInput ==
    (MergeDone /\ Len(sboms) = 0) =>
        /\ result.ok = FALSE
        /\ result.error.code = "INVALID_INPUT"
        /\ "data" \notin DOMAIN result

\* C3 witness: sbomMerge itself has been called with the empty list.
C3_Witness == pc = "done" /\ entry = "sbomMerge" /\ Len(sboms) = 0

\* the SPDXID values inside one input document are pairwise distinct
OwnSpdxIdsDistinct(doc) ==
    (isSpdxSbom(doc) /\ ~MergeThrows(<<doc>>)) =>
        \A i, j \in 1..Len(doc.packages) :
            i # j => doc.packages[i].SPDXID # doc.packages[j].SPDXID

\* C9: in a package-centric document returned by sbomMerge the SPDXID values
\* of the packages are pairwise distinct, the packages copied from package-
\* centric inputs and the packages synthesized from component-centric inputs
\* counted together (stated here for input documents whose own SPDXID values
\* are distinct).
C9_MergeSpdxIdsDistinct ==
    (/\ MergeReturnedDocument
     /\ isSpdxSbom(result.data.sbom)
     /\ \A d \in 1..Len(sboms) : OwnSpdxIdsDistinct(sboms[d])) =>
        LET ps == result.data.sbom.packages
        IN \A i, j \in 1..Len(ps) : i # j => ps[i].SPDXID # ps[j].SPDXID

----------------------------------------------------------------------------
(* Diff engine *)

\* position of the first "/" at or after position i, 0 when there is none
RECURSIVE FirstSlash(_, _)
FirstSlash(purl, i) ==
    IF i > Len(purl) THEN 0
    ELSE IF purl[i] = "/" THEN i
    ELSE FirstSlash(purl, i + 1)

\* purl.match(/^pkg:([^/]+)\//): "pkg:", one or more characters other than "/",
\* then "/"; the captured group is the text between them
extractEcosystemFromPurl(purl) ==
    IF ~Truthy(purl) THEN Undefined
    ELSE IF Len(purl) >= 6 /\ SubSeq(purl, 1, 4) = PkgPrefix /\ FirstSlash(purl, 5) > 5
    THEN SubSeq(purl, 5, FirstSlash(purl, 5) - 1)
    ELSE Undefined

\* the record without the ecosystem of its purl
NormalizedComponentNoEcosystem(name, version, purl) ==
    [name |-> name, version |-> version, purl |-> purl, ecosystem |-> Undefined]

NormalizedComponent(name, version, purl) ==
    [name |-> name, version |-> version, purl |-> purl,
     ecosystem |-> extractEcosystemFromPurl(purl)]

\* the same loop with a has() guard before its set(): the first occurrence stays
RECURSIVE NormalizeCdxFirstWins(_, _, _)
NormalizeCdxFirstWins(components, i, acc) ==
    IF i > Len(components) THEN acc
    ELSE LET c == components[i]
         IN NormalizeCdxFirstWins(components, i + 1,
                IF MapHas(acc, c.name) THEN acc
                ELSE MapSet(acc, c.name, NormalizedComponent(c.name, c.version, c.purl)))

\* for (const component of sbom.components) components.set(component.name, normalized)
RECURSIVE NormalizeCdxFrom(_, _, _)
NormalizeCdxFrom(components, i, acc) ==
    IF i > Len(components) THEN acc
    ELSE LET c == components[i]
         IN NormalizeCdxFrom(components, i + 1,
                MapSet(acc, c.name, NormalizedComponent(c.name, c.version, c.purl)))

normalizeCycloneDxComponents(sbom) == NormalizeCdxFrom(sbom.components, 1, <<>>)

RECURSIVE NormalizeSpdxFrom(_, _, _)
NormalizeSpdxFrom(packages, i, acc) ==
    IF i > Len(packages) THEN acc
    ELSE LET p == packages[i]
             purlRef == FindPurlRef(p.externalRefs)
             purl == IF purlRef # 0 THEN p.externalRefs[purlRef].referenceLocator
                     ELSE Undefined
         IN NormalizeSpdxFrom(packages, i + 1,
                MapSet(acc, p.name, NormalizedComponent(p.name, p.versionInfo, purl)))

normalizeSpdxPackages(sbom) == NormalizeSpdxFrom(sbom.packages, 1, <<>>)

normalizeComponents(sbom) ==
    IF isCycloneDxSbom(sbom) THEN normalizeCycloneDxComponents(sbom)
    ELSE IF isSpdxSbom(sbom) THEN normalizeSpdxPackages(sbom)
    ELSE <<>>

\* String.prototype.localeCompare on ASCII letters and digits (the default
\* collation): digits before letters, letters in alphabetical order whatever
\* their case; strings equal up to case are ordered by the first position
\* where the case differs, lower case first.
CollationOrder == <<"0","1","2","3","4","5","6","7","8","9",
                    "a","b","c","d","e","f","g","h","i","j","k","l","m",
                    "n","o","p","q","r","s","t","u","v","w","x","y","z">>
UpperOrder == <<"A","B","C","D","E","F","G","H","I","J","K","L","M",
                "N","O","P","Q","R","S","T","U","V","W","X","Y","Z">>

toLowerCaseChar(c) ==
    IF c \in UpperLetters
    THEN CollationOrder[10 + (CHOOSE i \in 1..26 : UpperOrder[i] = c)]
    ELSE c

PrimaryWeight(c) == CHOOSE i \in 1..36 : CollationOrder[i] = toLowerCaseChar(c)

RECURSIVE PrimaryCompare(_, _, _)
PrimaryCompare(a, b, i) ==
    IF i > Len(a) /\ i > Len(b) THEN 0
    ELSE IF i > Len(a) THEN -1
    ELSE IF i > Len(b) THEN 1
    ELSE IF PrimaryWeight(a[i]) < PrimaryWeight(b[i]) THEN -1
    ELSE IF PrimaryWeight(a[i]) > PrimaryWeight(b[i]) THEN 1
    ELSE PrimaryCompare(a, b, i + 1)

RECURSIVE CaseCompare(_, _, _)
CaseCompare(a, b, i) ==
    IF i > Len(a) THEN 0
    ELSE IF a[i] = b[i] THEN CaseCompare(a, b, i + 1)
    ELSE IF a[i] \in LowerLetters THEN -1
    ELSE 1

localeCompare(a, b) ==
    IF PrimaryCompare(a, b, 1) # 0 THEN PrimaryCompare(a, b, 1)
    ELSE CaseCompare(a, b, 1)

\* Array.prototype.sort with sortByName: a stable sort, here by insertion
RECURSIVE InsertByName(_, _)
InsertByName(sorted, e) ==
    IF Len(sorted) = 0 THEN <<e>>
    ELSE IF localeCompare(sorted[Len(sorted)].name, e.name) <= 0 THEN Append(sorted, e)
    ELSE Append(InsertByName(SubSeq(sorted, 1, Len(sorted) - 1), e), sorted[Len(sorted)])

RECURSIVE SortFrom(_, _, _)
SortFrom(list, i, sorted) ==
    IF i > Len(list) THEN sorted
    ELSE SortFrom(list, i + 1, InsertByName(sorted, list[i]))

NoSort(list) == list

SortByName(list) == SortFrom(list, 1, <<>>)

\* the first branch without its test that the old document lacks the name
RECURSIVE AddedNoHasCheck(_, _, _)
AddedNoHasCheck(oldComponents, newComponents, i) ==
    IF i > Len(newComponents) THEN <<>>
    ELSE LET newComp == newComponents[i].val
         IN <<[name |-> newComp.name, ecosystem |-> newComp.ecosystem,
               purl |-> newComp.purl, oldVersion |-> Undefined,
               newVersion |-> newComp.version]>>
            \o AddedNoHasCheck(oldComponents, newComponents, i + 1)

\* the loop over newComponents: added and version-changed components
RECURSIVE AddedFrom(_, _, _)
AddedFrom(oldComponents, newComponents, i) ==
    IF i > Len(newComponents) THEN <<>>
    ELSE LET newComp == newComponents[i].val
         IN (IF ~MapHas(oldComponents, newComponents[i].key)
             THEN <<[name |-> newComp.name, ecosystem |-> newComp.ecosystem,
                     purl |-> newComp.purl, oldVersion |-> Undefined,
                     newVersion |-> newComp.version]>>
             ELSE <<>>)
            \o AddedFrom(oldComponents, newComponents, i + 1)

\* the second branch without its comparison of the two version strings
RECURSIVE VersionChangedNoCompare(_, _, _)
VersionChangedNoCompare(oldComponents, newComponents, i) ==
    IF i > Len(newComponents) THEN <<>>
    ELSE LET newComp == newComponents[i].val
             name == newComponents[i].key
         IN (IF MapHas(oldComponents, name)
             THEN <<[name |-> newComp.name, ecosystem |-> newComp.ecosystem,
                     purl |-> newComp.purl,
                     oldVersion |-> MapGet(oldComponents, name).version,
                     newVersion |-> newComp.version]>>
             ELSE <<>>)
            \o VersionChangedNoCompare(oldComponents, newComponents, i + 1)

RECURSIVE VersionChangedFrom(_, _, _)
VersionChangedFrom(oldComponents, newComponents, i) ==
    IF i > Len(newComponents) THEN <<>>
    ELSE LET newComp == newComponents[i].val
             name == newComponents[i].key
         IN (IF MapHas(oldComponents, name)
                /\ MapGet(oldComponents, name).version # newComp.version
             THEN <<[name |-> newComp.name, ecosystem |-> newComp.ecosystem,
                     purl |-> newComp.purl,
                     oldVersion |-> MapGet(oldComponents, name).version,
                     newVersion |-> newComp.version]>>
             ELSE <<>>)
            \o VersionChangedFrom(oldComponents, newComponents, i + 1)

\* the loop over oldComponents without its test of newComponents.has(name)
RECURSIVE RemovedNoHasCheck(_, _, _)
RemovedNoHasCheck(oldComponents, newComponents, i) ==
    IF i > Len(oldComponents) THEN <<>>
    ELSE LET oldComp == oldComponents[i].val
         IN <<[name |-> oldComp.name, ecosystem |-> oldComp.ecosystem,
               purl |-> oldComp.purl, oldVersion |-> oldComp.version,
               newVersion |-> Undefined]>>
            \o RemovedNoHasCheck(oldComponents, newComponents, i + 1)

\* the loop over oldComponents: removed components
RECURSIVE RemovedFrom(_, _, _)
RemovedFrom(oldComponents, newComponents, i) ==
    IF i > Len(oldComponents) THEN <<>>
    ELSE LET oldComp == oldComponents[i].val
         IN (IF ~MapHas(newComponents, oldComponents[i].key)
             THEN <<[name |-> oldComp.name, ecosystem |-> oldComp.ecosystem,
                     purl |-> oldComp.purl, oldVersion |-> oldComp.version,
                     newVersion |-> Undefined]>>
             ELSE <<>>)
            \o RemovedFrom(oldComponents, newComponents, i + 1)

\* iterating a missing components / packages list raises a TypeError
NormalizeThrows(sbom) ==
    \/ isCycloneDxSbom(sbom) /\ "components" \notin DOMAIN sbom
    \/ ~isCycloneDxSbom(sbom) /\ isSpdxSbom(sbom) /\ "packages" \notin DOMAIN sbom

sbomDiff(old, new, timestamp) ==
    IF NormalizeThrows(old) \/ NormalizeThrows(new)
    THEN ErrorEnvelope("INTERNAL_ERROR", <<"Failed to diff SBOMs: ", NotIterable>>, timestamp)
    ELSE LET oldComponents == normalizeComponents(old)
             newComponents == normalizeComponents(new)
         IN SuccessEnvelope(
                [added |-> SortByName(AddedFrom(oldComponents, newComponents, 1)),
                 removed |-> SortByName(RemovedFrom(oldComponents, newComponents, 1)),
                 version_changed |->
                     SortByName(VersionChangedFrom(oldComponents, newComponents, 1))],
                timestamp)

----------------------------------------------------------------------------
(* Tool-call boundary of the diff tool *)

SbomDiffInputSchemaOk(old, new) == SbomSchemaOk(old) /\ SbomSchemaOk(new)

SbomDiffInputErrors(old, new) ==
    (IF SbomSchemaOk(old) THEN {} ELSE {"old_sbom"})
    \cup (IF SbomSchemaOk(new) THEN {} ELSE {"new_sbom"})

\* case 'sbom_diff' of the MCP server's call-tool handler
ServerCallToolDiff(old, new, timestamp) ==
    IF ~SbomDiffInputSchemaOk(old, new)
    THEN ValidationErrorEnvelope(SbomDiffInputErrors(old, new), timestamp)
    ELSE sbomDiff(old, new, timestamp)

\* case 'sbom_diff' of the HTTP transport's tools/call
HttpToolsCallDiff(old, new, timestamp) ==
    IF ~SbomDiffInputSchemaOk(old, new)
    THEN ValidationErrorEnvelope(SbomDiffInputErrors(old, new), timestamp)
    ELSE sbomDiff(old, new, timestamp)

----------------------------------------------------------------------------
(* Inputs of the diff engine *)

NameUpperB == <<"B">>
NameB == <<"b">>
Version2 == <<"2">>
PurlA2 == <<"p","k","g",":","n","p","m","/","a","@","2">>
PurlB1 == <<"p","k","g",":","p","y","p","i","/","B","@","1">>
SpdxIdB0 == SpdxRefPackage \o <<"B", "-", "0">>
SpdxIdb0 == SpdxRefPackage \o <<"b", "-", "0">>

DiffComponentPool ==
    { CycloneDxComponent(NameA, Version1, Undefined),
      CycloneDxComponent(NameA, Version2, PurlA2),
      CycloneDxComponent(NameUpperB, Version1, PurlB1),
      CycloneDxComponent(NameB, Version1, Undefined) }

DiffPackagePool ==
    { SpdxPackage(NameA, Version1, SpdxIdA1, NoList),
      SpdxPackage(NameA, Version2, SpdxIdA1, <<PurlRef(PurlA2)>>),
      SpdxPackage(NameUpperB, Version1, SpdxIdB0, <<PurlRef(PurlB1)>>),
      SpdxPackage(NameB, Version1, SpdxIdb0, NoList) }

DiffDocPool ==
    {CycloneDxDoc(cs) : cs \in SeqsUpTo(DiffComponentPool, MaxDiffEntries)}
    \cup {SpdxDoc(ps) : ps \in SeqsUpTo(DiffPackagePool, MaxDiffEntries)}
    \cup {UnrecognizedDoc, MalformedDoc}

----------------------------------------------------------------------------
(* The diff operation called directly and through the two tool handlers *)

InitDiff ==
    /\ pc = "ready"
    /\ entry = "none"
    /\ oldSbom \in DiffDocPool
    /\ newSbom \in DiffDocPool
    /\ sboms = None /\ format = "none" /\ deps = None
    /\ component = None /\ index = 0 /\ pkg = None
    /\ heap = <<>>
    /\ loops = <<>>
    /\ req = None /\ res = <<>>
    /\ result = None

DiffCall ==
    /\ pc = "ready"
    /\ \E timestamp \in Timestamps : result' = sbomDiff(oldSbom, newSbom, timestamp)
    /\ pc' = "done"
    /\ entry' = "sbomDiff"
    /\ UNCHANGED <<sboms, format, deps, oldSbom, newSbom, component, index, pkg, heap, loops,
                   req, res>>

ServerDiffTool ==
    /\ pc = "ready"
    /\ \E timestamp \in Timestamps : result' = ServerCallToolDiff(oldSbom, newSbom, timestamp)
    /\ pc' = "done"
    /\ entry' = "server:sbom_diff"
    /\ UNCHANGED <<sboms, format, deps, oldSbom, newSbom, component, index, pkg, heap, loops,
                   req, res>>

HttpDiffTool ==
    /\ pc = "ready"
    /\ \E timestamp \in Timestamps : result' = HttpToolsCallDiff(oldSbom, newSbom, timestamp)
    /\ pc' = "done"
    /\ entry' = "http:sbom_diff"
    /\ UNCHANGED <<sboms, format, deps, oldSbom, newSbom, component, index, pkg, heap, loops,
                   req, res>>

NextDiff == DiffCall \/ ServerDiffTool \/ HttpDiffTool

SpecDiff == InitDiff /\ [][NextDiff]_vars

----------------------------------------------------------------------------
(* Properties of the diff engine *)

DiffEntries == {"sbomDiff", "server:sbom_diff", "http:sbom_diff"}

DiffReturned == pc = "done" /\ entry \in DiffEntries /\ result.ok

\* the names listed by a recognized document
NamesOf(doc) == {p[1] : p \in EntryPairs(doc)}

\* the version strings a document lists for a name
VersionsOf(doc, n) == {p[2] : p \in {q \in EntryPairs(doc) : q[1] = n}}

ListNames(list) == {list[i].name : i \in 1..Len(list)}

OncePerList(list) == \A i, j \in 1..Len(list) : i # j => list[i].name # list[j].name

WellTyped(doc) == ~NormalizeThrows(doc)

\* C5: sbomDiff(d, d) succeeds with added, removed and version_changed empty,
\* for every document d, also one that lists a name more than once.
C5_DiffSelfEmpty ==
    (pc = "done" /\ entry = "sbomDiff" /\ oldSbom = newSbom /\ WellTyped(oldSbom)) =>
        /\ result.ok
        /\ result.data.added = <<>>
        /\ result.data.removed = <<>>
        /\ result.data.version_changed = <<>>

\* C5 witness: a document that lists one name at two versions was diffed
\* against itself.
C5_Witness ==
    /\ pc = "done" /\ entry = "sbomDiff" /\ oldSbom = newSbom /\ WellTyped(oldSbom)
    /\ \E n \in NamesOf(oldSbom) : Cardinality(VersionsOf(oldSbom, n)) = 2


\* code-unit order of the ASCII letters and digits
CodeUnitOrder == <<"0","1","2","3","4","5","6","7","8","9",
                   "A","B","C","D","E","F","G","H","I","J","K","L","M",
                   "N","O","P","Q","R","S","T","U","V","W","X","Y","Z",
                   "a","b","c","d","e","f","g","h","i","j","k","l","m",
                   "n","o","p","q","r","s","t","u","v","w","x","y","z">>

CharCode(c) == CHOOSE i \in 1..62 : CodeUnitOrder[i] = c

\* a <= b in lexicographic order of the code units
RECURSIVE LexLeq(_, _, _)
LexLeq(a, b, i) ==
    IF i > Len(a) THEN TRUE
    ELSE IF i > Len(b) THEN FALSE
    ELSE IF CharCode(a[i]) < CharCode(b[i]) THEN TRUE
    ELSE IF CharCode(a[i]) > CharCode(b[i]) THEN FALSE
    ELSE LexLeq(a, b, i + 1)

SortedLexicographically(list) ==
    \A i, j \in 1..Len(list) : i < j => LexLeq(list[i].name, list[j].name, 1)

SortedByLocaleCompare(list) ==
    \A i, j \in 1..Len(list) : i < j => localeCompare(list[i].name, list[j].name) <= 0

ListPermutations(list) ==
    {[i \in 1..Len(list) |-> list[f[i]]] :
        f \in {g \in [1..Len(list) -> 1..Len(list)] :
                 \A i, j \in 1..Len(list) : i # j => g[i] # g[j]}}

\* the documents that list the same entries as doc in another order
PermutedDocs(doc) ==
    IF NormalizeThrows(doc) THEN {doc}
    ELSE IF isCycloneDxSbom(doc)
    THEN {[doc EXCEPT !.components = cs] : cs \in ListPermutations(doc.components)}
    ELSE IF isSpdxSbom(doc)
    THEN {[doc EXCEPT !.packages = ps] : ps \in ListPermutations(doc.packages)}
    ELSE {doc}

PermutationInvariant ==
    \A po \in PermutedDocs(oldSbom), pn \in PermutedDocs(newSbom) :
        sbomDiff(po, pn, result.meta.retrieved_at) = result

\* every two entries of the document with the same name are the same record
NoConflictingNames(doc) ==
    IF NormalizeThrows(doc) \/ ~Recognized(doc) THEN TRUE
    ELSE LET list == IF isCycloneDxSbom(doc) THEN doc.components ELSE doc.packages
         IN \A i, j \in 1..Len(list) : list[i].name = list[j].name => list[i] = list[j]

\* C6 as stated: each list returned by sbomDiff is sorted by name in
\* ascending lexicographic order, and the result is the same for every
\* permutation of the entries inside the old and inside the new document.
C6_DiffSortedAndOrderIndependent ==
    (pc = "done" /\ entry = "sbomDiff" /\ result.ok) =>
        /\ SortedLexicographically(result.data.added)
        /\ SortedLexicographically(result.data.removed)
        /\ SortedLexicographically(result.data.version_changed)
        /\ PermutationInvariant

\* C6 amended: each list returned by sbomDiff is sorted by name in the
\* ascending order of localeCompare, and the result is the same for every
\* permutation of the entries of the two documents when neither document
\* lists one name with two different records.
C6_DiffSortedByLocaleCompare ==
    (pc = "done" /\ entry = "sbomDiff" /\ result.ok) =>
        /\ SortedByLocaleCompare(result.data.added)
        /\ SortedByLocaleCompare(result.data.removed)
        /\ SortedByLocaleCompare(result.data.version_changed)
        /\ (NoConflictingNames(oldSbom) /\ NoConflictingNames(newSbom))
              => PermutationInvariant

\* C6 witness: two names were added whose order in the new document is not
\* their order in the result.
C6_Witness ==
    /\ pc = "done" /\ entry = "sbomDiff" /\ result.ok
    /\ isCycloneDxSbom(newSbom) /\ WellTyped(newSbom)
    /\ Len(newSbom.components) = 2
    /\ Len(result.data.added) = 2
    /\ result.data.added[1].name = newSbom.components[2].name
    /\ result.data.added[2].name = newSbom.components[1].name

----------------------------------------------------------------------------
(* SBOM builder *)

\* a lone surrogate code unit, which encodeURIComponent rejects with a URIError
LoneSurrogate == "\\uD800"

\* the characters encodeURIComponent leaves alone
UriUnreserved == LowerLetters \cup UpperLetters \cup Digits
                 \cup {"-", "_", ".", "!", "~", "*", "'", "(", ")"}

\* the percent-encoding of the other ASCII characters used here
PercentEncoded(c) ==
    CASE c = "@" -> <<"%", "4", "0">>
      [] c = "/" -> <<"%", "2", "F">>
      [] c = ":" -> <<"%", "3", "A">>
      [] c = " " -> <<"%", "2", "0">>
      [] c = "%" -> <<"%", "2", "5">>

RECURSIVE encodeURIComponent(_)
encodeURIComponent(str) ==
    IF Len(str) = 0 THEN <<>>
    ELSE (IF Head(str) \in UriUnreserved THEN <<Head(str)>> ELSE PercentEncoded(Head(str)))
         \o encodeURIComponent(Tail(str))

toLowerCase(str) == [i \in 1..Len(str) |-> toLowerCaseChar(str[i])]

generatePurlNoLowerCase(dep) ==
    PkgPrefix \o dep.ecosystem \o <<"/">> \o encodeURIComponent(dep.name)
              \o <<"@">> \o encodeURIComponent(dep.version)

generatePurl(dep) ==
    PkgPrefix \o toLowerCase(dep.ecosystem) \o <<"/">> \o encodeURIComponent(dep.name)
              \o <<"@">> \o encodeURIComponent(dep.version)

\* the builder with a random bom-ref for every component
createCycloneDxSbomRandomBomRef(ds, timestamp, uuid) ==
    [bomFormat |-> "CycloneDX",
     specVersion |-> "1.5",
     version |-> 1,
     serialNumber |-> <<"urn:uuid:", uuid>>,
     metadata |-> [timestamp |-> timestamp, tools |-> <<ToolMetadata>>],
     components |->
        [i \in 1..Len(ds) |->
            [type |-> "library",
             name |-> ds[i].name,
             version |-> ds[i].version,
             purl |-> generatePurl(ds[i]),
             bomref |-> <<uuid>>,
             licenses |-> IF Truthy(ds[i].license)
                          THEN <<[id |-> ds[i].license, name |-> Undefined]>>
                          ELSE NoList]]]

createCycloneDxSbom(ds, timestamp, uuid) ==
    [bomFormat |-> "CycloneDX",
     specVersion |-> "1.5",
     version |-> 1,
     serialNumber |-> <<"urn:uuid:", uuid>>,
     metadata |-> [timestamp |-> timestamp, tools |-> <<ToolMetadata>>],
     components |->
        [i \in 1..Len(ds) |->
            [type |-> "library",
             name |-> ds[i].name,
             version |-> ds[i].version,
             purl |-> generatePurl(ds[i]),
             bomref |-> ds[i].ecosystem \o <<":">> \o ds[i].name \o <<"@">> \o ds[i].version,
             licenses |-> IF Truthy(ds[i].license)
                          THEN <<[id |-> ds[i].license, name |-> Undefined]>>
                          ELSE NoList]]]

SpdxPackageIdNoIndex(name, idx) == SpdxRefPackage \o sanitizeSpdxId(name)

\* `SPDXRef-Package-${sanitizeSpdxId(dep.name)}-${index}`
SpdxPackageId(name, idx) ==
    SpdxRefPackage \o sanitizeSpdxId(name) \o <<"-">> \o NumToString(idx)

createSpdxSbom(ds, timestamp, uuid) ==
    [spdxVersion |-> "SPDX-2.3",
     dataLicense |-> "CC0-1.0",
     SPDXID |-> "SPDXRef-DOCUMENT",
     name |-> "Generated SBOM",
     documentNamespace |-> <<"https://spdx.org/spdxdocs/", uuid>>,
     creationInfo |-> [created |-> timestamp,
                       creators |-> <<"Tool: Dedalus Labs/sbom-tools-1.0.0">>],
     packages |->
        [i \in 1..Len(ds) |->
            [name |-> ds[i].name,
             SPDXID |-> SpdxPackageId(ds[i].name, i - 1),
             downloadLocation |-> NOASSERTION,
             versionInfo |-> ds[i].version,
             filesAnalyzed |-> FALSE,
             externalRefs |-> <<PurlRef(generatePurl(ds[i]))>>,
             licenseConcluded |-> IF Truthy(ds[i].license) THEN ds[i].license
                                  ELSE NOASSERTION,
             licenseDeclared |-> IF Truthy(ds[i].license) THEN ds[i].license
                                 ELSE NOASSERTION]]]

HasLoneSurrogate(str) == \E i \in 1..Len(str) : str[i] = LoneSurrogate

\* encodeURIComponent raises a URIError inside generatePurl
CreateThrows(ds) ==
    \E i \in 1..Len(ds) : HasLoneSurrogate(ds[i].name) \/ HasLoneSurrogate(ds[i].version)

\* timestamp is read by sbomFromDependencies, created by the document builder
sbomFromDependencies(ds, fmt, timestamp, created, uuid) ==
    IF CreateThrows(ds)
    THEN ErrorEnvelope("INTERNAL_ERROR", <<"Failed to create SBOM: ", UriMalformed>>, timestamp)
    ELSE IF fmt = "cyclonedx"
    THEN SuccessEnvelope([sbom |-> createCycloneDxSbom(ds, created, uuid)], timestamp)
    ELSE SuccessEnvelope([sbom |-> createSpdxSbom(ds, created, uuid)], timestamp)

----------------------------------------------------------------------------
(* Tool-call boundary of the create tool *)

\* the schema with z.string() in place of z.string().min(1)
DependencySchemaNoMin(dep) == TRUE

DependencySchemaOk(dep) ==
    Len(dep.ecosystem) >= 1 /\ Len(dep.name) >= 1 /\ Len(dep.version) >= 1

SbomFromDependenciesInputSchemaOk(ds, fmt) ==
    /\ Len(ds) >= 1
    /\ \A i \in 1..Len(ds) : DependencySchemaOk(ds[i])
    /\ fmt \in SbomFormats

SbomFromDependenciesInputErrors(ds, fmt) ==
    (IF Len(ds) >= 1 /\ \A i \in 1..Len(ds) : DependencySchemaOk(ds[i])
     THEN {} ELSE {"deps"})
    \cup (IF fmt \in SbomFormats THEN {} ELSE {"format"})

\* case 'sbom_from_dependencies' of the MCP server's call-tool handler
ServerCallToolCreate(ds, fmt, timestamp, created, uuid) ==
    IF ~SbomFromDependenciesInputSchemaOk(ds, fmt)
    THEN ValidationErrorEnvelope(SbomFromDependenciesInputErrors(ds, fmt), timestamp)
    ELSE sbomFromDependencies(ds, fmt, timestamp, created, uuid)

\* case 'sbom_from_dependencies' of the HTTP transport's tools/call
HttpToolsCallCreate(ds, fmt, timestamp, created, uuid) ==
    IF ~SbomFromDependenciesInputSchemaOk(ds, fmt)
    THEN ValidationErrorEnvelope(SbomFromDependenciesInputErrors(ds, fmt), timestamp)
    ELSE sbomFromDependencies(ds, fmt, timestamp, created, uuid)

----------------------------------------------------------------------------
(* Inputs of the builder *)

EcosystemNpm == <<"n", "p", "m">>
EcosystemUpperNpm == <<"N", "P", "M">>
NameADash == <<"a", "-">>
NameAAt == <<"a", "@">>
NameADash1 == <<"a", "-", "1">>
NameSurrogate == <<"a", LoneSurrogate>>
LicenseMIT == <<"M", "I", "T">>

Dependency(ecosystem, name, version, license) ==
    [ecosystem |-> ecosystem, name |-> name, version |-> version, license |-> license]

DependencyPool ==
    {Dependency(e, n, Version1, Undefined) :
        e \in {EcosystemNpm, EcosystemUpperNpm},
        n \in {NameA, NameADash, NameAAt, NameADash1}}
    \cup {Dependency(EcosystemNpm, NameA, Version11, LicenseMIT),
          Dependency(EcosystemNpm, NameSurrogate, Version1, Undefined)}

----------------------------------------------------------------------------
(* The create operation called directly and through the two tool handlers *)

InitCreate ==
    /\ pc = "ready"
    /\ entry = "none"
    /\ deps \in SeqsUpTo(DependencyPool, MaxDeps)
    /\ format \in ToolFormats
    /\ sboms = None /\ oldSbom = None /\ newSbom = None
    /\ component = None /\ index = 0 /\ pkg = None
    /\ heap = <<>>
    /\ loops = <<>>
    /\ req = None /\ res = <<>>
    /\ result = None

\* a direct call of sbomFromDependencies; its format parameter is typed SbomFormat
CreateCall ==
    /\ pc = "ready"
    /\ format \in SbomFormats
    /\ \E timestamp \in Timestamps, created \in Timestamps, uuid \in Uuids :
          result' = sbomFromDependencies(deps, format, timestamp, created, uuid)
    /\ pc' = "done"
    /\ entry' = "sbomFromDependencies"
    /\ UNCHANGED <<sboms, format, deps, oldSbom, newSbom, component, index, pkg, heap, loops,
                   req, res>>

ServerCreateTool ==
    /\ pc = "ready"
    /\ \E timestamp \in Timestamps, created \in Timestamps, uuid \in Uuids :
          result' = ServerCallToolCreate(deps, format, timestamp, created, uuid)
    /\ pc' = "done"
    /\ entry' = "server:sbom_from_dependencies"
    /\ UNCHANGED <<sboms, format, deps, oldSbom, newSbom, component, index, pkg, heap, loops,
                   req, res>>

HttpCreateTool ==
    /\ pc = "ready"
    /\ \E timestamp \in Timestamps, created \in Timestamps, uuid \in Uuids :
          result' = HttpToolsCallCreate(deps, format, timestamp, created, uuid)
    /\ pc' = "done"
    /\ entry' = "http:sbom_from_dependencies"
    /\ UNCHANGED <<sboms, format, deps, oldSbom, newSbom, component, index, pkg, heap, loops,
                   req, res>>

NextCreate == CreateCall \/ ServerCreateTool \/ HttpCreateTool

SpecCreate == InitCreate /\ [][NextCreate]_vars

----------------------------------------------------------------------------
(* Properties of the builder *)

CreateEntries == {"sbomFromDependencies", "server:sbom_from_dependencies",
                  "http:sbom_from_dependencies"}

CreateReturnedDocument == pc = "done" /\ entry \in CreateEntries /\ result.ok

\* the purl the i-th entry of a built document carries: the purl field of a
\* component, the locator of the PACKAGE-MANAGER/purl reference of a package
CarriedPurls(doc, i) ==
    IF isCycloneDxSbom(doc) THEN {doc.components[i].purl}
    ELSE {r.referenceLocator :
            r \in {doc.packages[i].externalRefs[k] :
                     k \in {j \in 1..Len(doc.packages[i].externalRefs) :
                              /\ doc.packages[i].externalRefs[j].referenceCategory
                                    = "PACKAGE-MANAGER"
                              /\ doc.packages[i].externalRefs[j].referenceType = "purl"}}}

EntryCount(doc) == IF isCycloneDxSbom(doc) THEN Len(doc.components) ELSE Len(doc.packages)

\* C8: the i-th entry of every document returned by sbomFromDependencies
\* carries the purl pkg:<lowercased ecosystem>/<percent-encoded name>@<percent-
\* encoded version> of the i-th input dependency, in either format.
C8_BuilderPurl ==
    CreateReturnedDocument =>
        /\ EntryCount(result.data.sbom) = Len(deps)
        /\ \A i \in 1..Len(deps) :
              CarriedPurls(result.data.sbom, i) =
                 {PkgPrefix \o toLowerCase(deps[i].ecosystem) \o <<"/">>
                    \o encodeURIComponent(deps[i].name) \o <<"@">>
                    \o encodeURIComponent(deps[i].version)}

\* C8 witness: a package-centric document was built from the dependency
\* (NPM, "a@", "1"), and its package carries pkg:npm/a%40@1.
C8_Witness ==
    /\ CreateReturnedDocument
    /\ format = "spdx"
    /\ Len(deps) >= 1
    /\ deps[1] = Dependency(EcosystemUpperNpm, NameAAt, Version1, Undefined)
    /\ CarriedPurls(result.data.sbom, 1)
          = {<<"p","k","g",":","n","p","m","/","a","%","4","0","@","1">>}

\* C10: in every package-centric document returned by sbomFromDependencies
\* the SPDXID values of the packages are pairwise distinct.
C10_BuilderSpdxIdsDistinct ==
    (CreateReturnedDocument /\ isSpdxSbom(result.data.sbom)) =>
        LET ps == result.data.sbom.packages
        IN \A i, j \in 1..Len(ps) : i # j => ps[i].SPDXID # ps[j].SPDXID

\* C10 witness: a package-centric document was built from two dependencies
\* whose different names sanitize to the same string, which ends in a dash.
C10_Witness ==
    /\ CreateReturnedDocument /\ isSpdxSbom(result.data.sbom)
    /\ Len(deps) = 2
    /\ deps[1].name # deps[2].name
    /\ sanitizeSpdxId(deps[1].name) = sanitizeSpdxId(deps[2].name)
    /\ sanitizeSpdxId(deps[1].name)[Len(deps[1].name)] = "-"

----------------------------------------------------------------------------
(* The two converters applied one after the other *)

LicenseById == <<[id |-> LicenseMIT, name |-> Undefined]>>
LicenseByName == <<[id |-> Undefined, name |-> <<"X">>]>>

ConvertComponentPool ==
    {[type |-> "library", name |-> n, version |-> v, purl |-> p, licenses |-> l,
      bomref |-> Undefined] :
        n \in {NameA, NameA1},
        v \in {Version1, Version11},
        p \in {Undefined, <<>>, PurlA1},
        l \in {NoList, LicenseById, LicenseByName}}

InitConvert ==
    /\ pc = "ready"
    /\ entry = "none"
    /\ component \in ConvertComponentPool
    /\ index \in 0..MaxIndex
    /\ pkg = None
    /\ sboms = None /\ format = "none" /\ deps = None
    /\ oldSbom = None /\ newSbom = None
    /\ heap = <<>>
    /\ loops = <<>>
    /\ req = None /\ res = <<>>
    /\ result = None

ToSpdxPackage ==
    /\ pc = "ready"
    /\ pkg' = cycloneDxToSpdxPackage(component, index)
    /\ pc' = "converted"
    /\ entry' = "cycloneDxToSpdxPackage"
    /\ UNCHANGED <<sboms, format, deps, oldSbom, newSbom, component, index, heap, loops,
                   req, res, result>>

ToCycloneDxComponent ==
    /\ pc = "converted"
    /\ result' = spdxToCycloneDxComponent(pkg)
    /\ pc' = "done"
    /\ entry' = "spdxToCycloneDxComponent"
    /\ UNCHANGED <<sboms, format, deps, oldSbom, newSbom, component, index, pkg, heap, loops,
                   req, res>>

NextConvert == ToSpdxPackage \/ ToCycloneDxComponent

SpecConvert == InitConvert /\ [][NextConvert]_vars

\* C7: spdxToCycloneDxComponent(cycloneDxToSpdxPackage(c, i)) has the name and
\* the version of c, and the purl of c when c has a non-empty purl and no purl
\* otherwise.
C7_RoundTrip ==
    (pc = "done" /\ entry = "spdxToCycloneDxComponent") =>
        /\ result.name = component.name
        /\ result.version = component.version
        /\ Truthy(component.purl) => result.purl = component.purl
        /\ ~Truthy(component.purl) => result.purl = Undefined

\* C7 witness: a component with a purl went through both converters.
C7_Witness ==
    /\ pc = "done" /\ entry = "spdxToCycloneDxComponent"
    /\ component.purl = PurlA1
    /\ result.purl = PurlA1

----------------------------------------------------------------------------
(* Properties of the documents and envelopes returned by the operations *)

\* an input document of a merge lists (name, version) with a license
SuppliesLicense(doc, name, version) ==
    IF MergeThrows(<<doc>>) THEN FALSE
    ELSE IF isCycloneDxSbom(doc)
    THEN \E i \in 1..Len(doc.components) :
            /\ doc.components[i].name = name /\ doc.components[i].version = version
            /\ Len(doc.components[i].licenses) > 0
    ELSE IF isSpdxSbom(doc)
    THEN \E i \in 1..Len(doc.packages) :
            /\ doc.packages[i].name = name /\ doc.packages[i].versionInfo = version
            /\ (Truthy(doc.packages[i].licenseConcluded)
                \/ Truthy(doc.packages[i].licenseDeclared))
    ELSE FALSE

\* a license was supplied for the i-th package of the returned document
LicenseSupplied(i) ==
    IF entry \in CreateEntries THEN Truthy(deps[i].license)
    ELSE \E d \in 1..Len(sboms) :
            SuppliesLicense(sboms[d], result.data.sbom.packages[i].name,
                            result.data.sbom.packages[i].versionInfo)

\* C11: every package of a package-centric document returned by
\* sbomFromDependencies or by sbomMerge has licenseConcluded and
\* licenseDeclared present, and both are NOASSERTION when no license was
\* supplied for that record.
C11_LicenseFieldsPresent ==
    (/\ pc = "done" /\ entry \in CreateEntries \cup MergeEntries
     /\ result.ok /\ isSpdxSbom(result.data.sbom)) =>
        LET ps == result.data.sbom.packages
        IN \A i \in 1..Len(ps) :
              /\ ps[i].licenseConcluded # Undefined
              /\ ps[i].licenseDeclared # Undefined
              /\ ~LicenseSupplied(i) =>
                    /\ ps[i].licenseConcluded = NOASSERTION
                    /\ ps[i].licenseDeclared = NOASSERTION

----------------------------------------------------------------------------
(* The three operations behind one dispatcher: switch (name) of the tool    *)
(* handlers, and the direct calls of the three functions                    *)

ToolNames == {"sbom_from_dependencies", "sbom_merge", "sbom_diff"}

\* dependencies of a tool call: well-formed ones, one whose name makes
\* generatePurl throw, and one for each text field that may be empty
ToolDependencyPool ==
    { Dependency(EcosystemNpm, NameA, Version1, Undefined),
      Dependency(EcosystemNpm, NameA, Version11, LicenseMIT),
      Dependency(EcosystemNpm, NameSurrogate, Version1, Undefined),
      Dependency(<<>>, NameA, Version1, Undefined),
      Dependency(EcosystemNpm, <<>>, Version1, Undefined),
      Dependency(EcosystemNpm, NameA, <<>>, Undefined) }

InitTools ==
    /\ pc = "ready"
    /\ entry \in ToolNames
    /\ component = None /\ index = 0 /\ pkg = None
    /\ heap = <<>>
    /\ loops = <<>>
    /\ req = None /\ res = <<>>
    /\ result = None
    /\ \/ /\ entry = "sbom_merge"
          /\ sboms \in SeqsUpTo(MergeToolDocPool, MaxDocs)
          /\ format \in ToolFormats
          /\ deps = None /\ oldSbom = None /\ newSbom = None
       \/ /\ entry = "sbom_diff"
          /\ oldSbom \in DiffDocPool
          /\ newSbom \in DiffDocPool
          /\ sboms = None /\ format = "none" /\ deps = None
       \/ /\ entry = "sbom_from_dependencies"
          /\ deps \in SeqsUpTo(ToolDependencyPool, MaxDeps)
          /\ format \in ToolFormats
          /\ sboms = None /\ oldSbom = None /\ newSbom = None

NextTools ==
    \/ entry = "sbom_from_dependencies" /\ NextCreate
    \/ entry = "sbom_merge" /\ NextMergeTool
    \/ entry = "sbom_diff" /\ NextDiff

SpecTools == InitTools /\ [][NextTools]_vars

OperationEntries == CreateEntries \cup MergeEntries \cup DiffEntries

ErrorCodes == {"INVALID_INPUT", "INTERNAL_ERROR"}

IsSuccessShape(r) ==
    /\ r.ok = TRUE
    /\ "data" \in DOMAIN r
    /\ "error" \notin DOMAIN r
    /\ "source" \in DOMAIN r.meta /\ r.meta.source = "sbom-tools"
    /\ "pagination" \in DOMAIN r.meta /\ r.meta.pagination.next_cursor = "null"
    /\ "warnings" \in DOMAIN r.meta /\ r.meta.warnings = <<>>

IsFailureShape(r) ==
    /\ r.ok = FALSE
    /\ "data" \notin DOMAIN r
    /\ "error" \in DOMAIN r
    /\ r.error.code \in ErrorCodes

\* C12: every response of create, merge and diff, called directly or through
\* a tool handler, is either a success envelope (ok true, data, meta.source
\* "sbom-tools", next_cursor null, no warnings, no error) or a failure
\* envelope (ok false, no data, error.code INVALID_INPUT or INTERNAL_ERROR),
\* and never holds both data and error.
C12_EnvelopeShape ==
    (pc = "done" /\ entry \in OperationEntries) =>
        /\ IsSuccessShape(result) \/ IsFailureShape(result)
        /\ ~(IsSuccessShape(result) /\ IsFailureShape(result))
        /\ ~("data" \in DOMAIN result /\ "error" \in DOMAIN result)

\* C12 witness: sbomDiff itself answered a document without its component
\* list with the failure envelope of an internal error.
C12_Witness ==
    /\ pc = "done" /\ entry = "sbomDiff"
    /\ NormalizeThrows(oldSbom)
    /\ IsFailureShape(result)
    /\ result.error.code = "INTERNAL_ERROR"

HandlerEntries == {"server:sbom_from_dependencies", "http:sbom_from_dependencies",
                   "server:sbom_merge", "http:sbom_merge",
                   "server:sbom_diff", "http:sbom_diff"}

\* the arguments of the answered tool call fail the tool's input schema
ArgumentsFailSchema ==
    IF entry \in CreateEntries
    THEN \/ Len(deps) = 0
         \/ \E i \in 1..Len(deps) :
               deps[i].ecosystem = <<>> \/ deps[i].name = <<>> \/ deps[i].version = <<>>
         \/ format \notin {"cyclonedx", "spdx"}
    ELSE IF entry \in MergeEntries
    THEN \/ Len(sboms) = 0
         \/ \E i \in 1..Len(sboms) : ~SbomSchemaOk(sboms[i])
         \/ format \notin {"cyclonedx", "spdx"}
    ELSE ~SbomSchemaOk(oldSbom) \/ ~SbomSchemaOk(newSbom)

\* C13: a tool call whose arguments fail the input schema is answered by the
\* handler's own failure envelope: code INVALID_INPUT, the message and the
\* validation details of the handler (not an envelope of the core operation,
\* which is not called), and no data, so no document and no diff.
C13_SchemaFailureIsInvalidInput ==
    (pc = "done" /\ entry \in HandlerEntries /\ ArgumentsFailSchema) =>
        /\ result.ok = FALSE
        /\ "data" \notin DOMAIN result
        /\ result.error.code = "INVALID_INPUT"
        /\ result.error.message = <<"Invalid input parameters">>
        /\ "fieldErrors" \in DOMAIN result.error.details
        /\ result.error.details.fieldErrors # {}

\* C13 witness: the HTTP handler answered a create call, with a valid format,
\* whose only dependency has an empty name.
C13_Witness ==
    /\ pc = "done" /\ entry = "http:sbom_from_dependencies"
    /\ format = "spdx"
    /\ Len(deps) = 1 /\ deps[1].name = <<>> /\ deps[1].ecosystem # <<>>
    /\ result.ok = FALSE
    /\ result.error.details.fieldErrors = {"deps"}

\* the component or package list of a document returned by sbomMerge
MergedList(doc) == IF isCycloneDxSbom(doc) THEN doc.components ELSE doc.packages

\* the document carries neither the tag bomFormat "CycloneDX" nor the tag
\* spdxVersion "SPDX-2.3"
NeitherFormat(doc) ==
    /\ ~("bomFormat" \in DOMAIN doc /\ doc.bomFormat = "CycloneDX")
    /\ ~("spdxVersion" \in DOMAIN doc /\ doc.spdxVersion = "SPDX-2.3")

EitherFormat(doc) == ~NeitherFormat(doc)

RecognizedDocs(docs) == SelectSeq(docs, EitherFormat)

\* C14: an unrecognized document (neither bomFormat "CycloneDX" nor
\* spdxVersion "SPDX-2.3") does not make sbomMerge or sbomDiff fail and
\* contributes nothing: the merge succeeds with exactly the list that the
\* recognized documents alone give (the empty list when there is none), and
\* the diff reports every name of the other document as added (unrecognized
\* old document) or removed (unrecognized new document) and nothing else.
C14_UnrecognizedContributesNothing ==
    /\ (/\ pc = "done" /\ entry = "sbomMerge"
        /\ ~MergeThrows(sboms)
        /\ \E i \in 1..Len(sboms) : NeitherFormat(sboms[i])) =>
            /\ result.ok
            /\ EntryPairs(result.data.sbom)
                  \subseteq UNION {EntryPairs(sboms[i]) :
                                     i \in {j \in 1..Len(sboms) : EitherFormat(sboms[j])}}
            /\ IF RecognizedDocs(sboms) = <<>>
               THEN MergedList(result.data.sbom) = <<>>
               ELSE \A t \in Timestamps, u \in Uuids :
                       MergedList(result.data.sbom)
                          = MergedList(sbomMerge(RecognizedDocs(sboms), format, t, u).data.sbom)
    /\ (/\ pc = "done" /\ entry = "sbomDiff"
        /\ NeitherFormat(oldSbom) /\ WellTyped(newSbom)) =>
            /\ result.ok
            /\ ListNames(result.data.added) = NamesOf(newSbom)
            /\ OncePerList(result.data.added)
            /\ result.data.removed = <<>>
            /\ result.data.version_changed = <<>>
    /\ (/\ pc = "done" /\ entry = "sbomDiff"
        /\ NeitherFormat(newSbom) /\ WellTyped(oldSbom)) =>
            /\ result.ok
            /\ ListNames(result.data.removed) = NamesOf(oldSbom)
            /\ OncePerList(result.data.removed)
            /\ result.data.added = <<>>
            /\ result.data.version_changed = <<>>

\* C14 witness: sbomMerge was given an unrecognized document that lists a
\* component and a recognized document, and returned one entry.
C14_Witness ==
    /\ pc = "done" /\ entry = "sbomMerge"
    /\ Len(sboms) = 2
    /\ sboms[1] = UnrecognizedDoc /\ Len(sboms[1].components) = 1
    /\ EitherFormat(sboms[2]) /\ ~MergeThrows(sboms)
    /\ result.ok
    /\ Len(MergedList(result.data.sbom)) = 1

----------------------------------------------------------------------------
(* sbomMerge and sbomDiff at the level of objects: documents, their lists   *)
(* and the entries of the lists are objects in heap, reached by reference   *)
(* (a position of heap); a Map holds references; an object literal          *)
(* allocates, an assignment to a field or an array method writes.           *)

\* const x = value; Body(x): the value is computed once
Bind(value, Body(_)) == CHOOSE y \in {Body(x) : x \in {value}} : TRUE

\* { ... } or [ ... ]: a new object
Alloc(h, object) == [heap |-> Append(h, object), ref |-> Len(h) + 1]

\* object.field = value
Write(h, ref, field, value) ==
    [h EXCEPT ![ref] = [f \in DOMAIN h[ref] \cup {field} |->
                           IF f = field THEN value ELSE h[ref][f]]]

\* array.push(...) / array.sort(...): the array object gets new contents
WriteArray(h, ref, contents) == [h EXCEPT ![ref] = contents]

\* the entries of a list object, as values
Deref(h, refs) == [i \in 1..Len(refs) |-> h[refs[i]]]

\* the name of the list field of a document, "" when it has none
ListField(doc) ==
    IF "components" \in DOMAIN doc THEN "components"
    ELSE IF "packages" \in DOMAIN doc THEN "packages"
    ELSE ""

\* the caller's documents as objects: one object per entry, one for the list,
\* one for the document, which holds the reference of its list
RECURSIVE LoadEntries(_, _, _, _)
LoadEntries(h, entries, i, refs) ==
    IF i > Len(entries) THEN [heap |-> h, refs |-> refs]
    ELSE LoadEntries(Append(h, entries[i]), entries, i + 1, Append(refs, Len(h) + 1))

LoadDoc(h, doc) ==
    IF ListField(doc) = "" THEN Alloc(h, doc)
    ELSE LET es == LoadEntries(h, doc[ListField(doc)], 1, <<>>)
             list == Alloc(es.heap, es.refs)
         IN Alloc(list.heap, [doc EXCEPT ![ListField(doc)] = list.ref])

RECURSIVE LoadDocs(_, _, _, _)
LoadDocs(h, docs, i, refs) ==
    IF i > Len(docs) THEN [heap |-> h, refs |-> refs]
    ELSE LET d == LoadDoc(h, docs[i])
         IN LoadDocs(d.heap, docs, i + 1, Append(refs, d.ref))

\* the document an object stands for, its list and entries read through
DocValue(h, ref) ==
    IF ListField(h[ref]) = "" THEN h[ref]
    ELSE [h[ref] EXCEPT ![ListField(h[ref])] = Deref(h, h[@])]

\* extractCycloneDxComponents / extractSpdxPackages: the Map holds the entry
\* objects themselves
RECURSIVE ExtractRefsFrom(_, _, _, _)
ExtractRefsFrom(h, list, i, acc) ==
    IF i > Len(list) THEN acc
    ELSE LET e == h[list[i]]
             key == IF "versionInfo" \in DOMAIN e
                    THEN componentKey(e.name, e.versionInfo)
                    ELSE componentKey(e.name, e.version)
         IN ExtractRefsFrom(h, list, i + 1,
                            IF MapHas(acc, key) THEN acc ELSE MapSet(acc, key, list[i]))

\* the loop over the documents, for one of the two Maps
RECURSIVE CollectRefs(_, _, _, _, _)
CollectRefs(h, docs, i, all, wantCycloneDx) ==
    IF i > Len(docs) THEN all
    ELSE LET doc == h[docs[i]]
             mine == IF wantCycloneDx THEN isCycloneDxSbom(doc)
                     ELSE ~isCycloneDxSbom(doc) /\ isSpdxSbom(doc)
         IN CollectRefs(h, docs, i + 1,
                IF mine
                THEN CollectInto(all, ExtractRefsFrom(h, h[doc[ListField(doc)]], 1, <<>>))
                ELSE all,
                wantCycloneDx)

\* the license fields assigned to the component that was passed in
cycloneDxToSpdxPackageWritesInput(h, cRef, idx) ==
    LET c == h[cRef]
        pkgObj == Alloc(h, [name |-> c.name,
                            SPDXID |-> SpdxRefPackage \o sanitizeSpdxId(c.name)
                                          \o <<"-">> \o NumToString(idx),
                            downloadLocation |-> NOASSERTION,
                            versionInfo |-> c.version,
                            filesAnalyzed |-> FALSE,
                            externalRefs |-> NoList,
                            licenseConcluded |-> Undefined,
                            licenseDeclared |-> Undefined])
        h1 == IF Truthy(c.purl)
              THEN Write(pkgObj.heap, pkgObj.ref, "externalRefs",
                         <<[referenceCategory |-> "PACKAGE-MANAGER",
                            referenceType |-> "purl",
                            referenceLocator |-> c.purl]>>)
              ELSE pkgObj.heap
        licenseId == IF Len(c.licenses) > 0
                     THEN LET license == c.licenses[1]
                          IN IF Truthy(license.id) THEN license.id
                             ELSE IF Truthy(license.name) THEN license.name
                             ELSE NOASSERTION
                     ELSE NOASSERTION
    IN [heap |-> Write(Write(h1, cRef, "licenseConcluded", licenseId),
                       cRef, "licenseDeclared", licenseId),
        ref |-> pkgObj.ref]

\* cycloneDxToSpdxPackage: const pkg = {...}; pkg.externalRefs = ...;
\* pkg.licenseConcluded = ...; pkg.licenseDeclared = ...; return pkg
cycloneDxToSpdxPackageObj(h, cRef, idx) ==
    LET c == h[cRef]
        pkgObj == Alloc(h, [name |-> c.name,
                            SPDXID |-> SpdxRefPackage \o sanitizeSpdxId(c.name)
                                          \o <<"-">> \o NumToString(idx),
                            downloadLocation |-> NOASSERTION,
                            versionInfo |-> c.version,
                            filesAnalyzed |-> FALSE,
                            externalRefs |-> NoList,
                            licenseConcluded |-> Undefined,
                            licenseDeclared |-> Undefined])
        h1 == IF Truthy(c.purl)
              THEN Write(pkgObj.heap, pkgObj.ref, "externalRefs",
                         <<[referenceCategory |-> "PACKAGE-MANAGER",
                            referenceType |-> "purl",
                            referenceLocator |-> c.purl]>>)
              ELSE pkgObj.heap
        licenseId == IF Len(c.licenses) > 0
                     THEN LET license == c.licenses[1]
                          IN IF Truthy(license.id) THEN license.id
                             ELSE IF Truthy(license.name) THEN license.name
                             ELSE NOASSERTION
                     ELSE NOASSERTION
    IN [heap |-> Write(Write(h1, pkgObj.ref, "licenseConcluded", licenseId),
                       pkgObj.ref, "licenseDeclared", licenseId),
        ref |-> pkgObj.ref]

\* spdxToCycloneDxComponent: const component = {...}; component.purl = ...;
\* component.licenses = ...; return component
spdxToCycloneDxComponentObj(h, pRef) ==
    LET p == h[pRef]
        componentObj == Alloc(h, [type |-> "library",
                                  name |-> p.name,
                                  version |-> p.versionInfo,
                                  bomref |-> p.name \o <<"@">> \o p.versionInfo,
                                  purl |-> Undefined,
                                  licenses |-> NoList])
        purlRef == FindPurlRef(p.externalRefs)
        h1 == IF purlRef # 0
              THEN Write(componentObj.heap, componentObj.ref, "purl",
                         p.externalRefs[purlRef].referenceLocator)
              ELSE componentObj.heap
        h2 == IF Truthy(p.licenseDeclared) /\ p.licenseDeclared # NOASSERTION
              THEN Write(h1, componentObj.ref, "licenses",
                         <<[id |-> p.licenseDeclared, name |-> Undefined]>>)
              ELSE h1
    IN [heap |-> h2, ref |-> componentObj.ref]

RECURSIVE ConvertRefsToCycloneDx(_, _, _, _)
ConvertRefsToCycloneDx(h, allCdx, allSpdx, i) ==
    IF i > Len(allSpdx) THEN [heap |-> h, map |-> allCdx]
    ELSE IF MapHas(allCdx, allSpdx[i].key)
    THEN ConvertRefsToCycloneDx(h, allCdx, allSpdx, i + 1)
    ELSE LET made == spdxToCycloneDxComponentObj(h, allSpdx[i].val)
         IN ConvertRefsToCycloneDx(made.heap, MapSet(allCdx, allSpdx[i].key, made.ref),
                                   allSpdx, i + 1)

RECURSIVE ConvertRefsToSpdx(_, _, _, _, _)
ConvertRefsToSpdx(h, allSpdx, allCdx, i, idx) ==
    IF i > Len(allCdx) THEN [heap |-> h, map |-> allSpdx]
    ELSE IF MapHas(allSpdx, allCdx[i].key)
    THEN ConvertRefsToSpdx(h, allSpdx, allCdx, i + 1, idx)
    ELSE LET made == cycloneDxToSpdxPackageObj(h, allCdx[i].val, idx)
         IN ConvertRefsToSpdx(made.heap, MapSet(allSpdx, allCdx[i].key, made.ref),
                              allCdx, i + 1, idx + 1)

\* sbomMerge on objects: the heap after the call and the envelope returned
sbomMergeObj(h, docs, fmt, timestamp, uuid) ==
    IF Len(docs) = 0
    THEN [heap |-> h,
          response |-> ErrorEnvelope("INVALID_INPUT",
                                     <<"At least one SBOM is required for merging">>, timestamp)]
    ELSE IF MergeThrows(Deref(h, docs))
    THEN [heap |-> h,
          response |-> ErrorEnvelope("INTERNAL_ERROR",
                                     <<"Failed to merge SBOMs: ", NotIterable>>, timestamp)]
    ELSE LET allCycloneDxComponents == CollectRefs(h, docs, 1, <<>>, TRUE)
             allSpdxPackages == CollectRefs(h, docs, 1, <<>>, FALSE)
         IN IF fmt = "cyclonedx"
            THEN LET conv == ConvertRefsToCycloneDx(h, allCycloneDxComponents,
                                                    allSpdxPackages, 1)
                     list == Alloc(conv.heap, MapValues(conv.map))
                     mergedSbom == Alloc(list.heap,
                                         MergedCycloneDxSbom(list.ref, timestamp, uuid))
                 IN [heap |-> mergedSbom.heap,
                     response |-> SuccessEnvelope(
                         [sbom |-> DocValue(mergedSbom.heap, mergedSbom.ref)], timestamp)]
            ELSE LET conv == ConvertRefsToSpdx(h, allSpdxPackages, allCycloneDxComponents,
                                               1, Len(allSpdxPackages))
                     list == Alloc(conv.heap, MapValues(conv.map))
                     mergedSbom == Alloc(list.heap,
                                         MergedSpdxSbom(list.ref, timestamp, uuid))
                 IN [heap |-> mergedSbom.heap,
                     response |-> SuccessEnvelope(
                         [sbom |-> DocValue(mergedSbom.heap, mergedSbom.ref)], timestamp)]

\* normalizeCycloneDxComponents / normalizeSpdxPackages: const normalized = {...}
RECURSIVE NormalizeRefsFrom(_, _, _, _, _)
NormalizeRefsFrom(h, list, i, acc, packages) ==
    IF i > Len(list) THEN [heap |-> h, map |-> acc]
    ELSE LET e == h[list[i]]
             purlRef == IF packages THEN FindPurlRef(e.externalRefs) ELSE 0
             purl == IF ~packages THEN e.purl
                     ELSE IF purlRef # 0 THEN e.externalRefs[purlRef].referenceLocator
                     ELSE Undefined
             normalized == Alloc(h, NormalizedComponent(
                                       e.name,
                                       IF packages THEN e.versionInfo ELSE e.version,
                                       purl))
         IN NormalizeRefsFrom(normalized.heap, list, i + 1,
                              MapSet(acc, e.name, normalized.ref), packages)

normalizeComponentsObj(h, ref) ==
    IF isCycloneDxSbom(h[ref])
    THEN NormalizeRefsFrom(h, h[h[ref].components], 1, <<>>, FALSE)
    ELSE IF isSpdxSbom(h[ref])
    THEN NormalizeRefsFrom(h, h[h[ref].packages], 1, <<>>, TRUE)
    ELSE [heap |-> h, map |-> <<>>]

\* a Map of references read as the Map of the objects
MapOfObjects(h, m) == [i \in 1..Len(m) |-> [key |-> m[i].key, val |-> h[m[i].val]]]

\* sbomDiff on objects: three new arrays, filled by push and sorted in place
DiffOfMaps(h, oldComponents, newComponents, timestamp) ==
    LET added == Alloc(h, <<>>)
        removed == Alloc(added.heap, <<>>)
        versionChanged == Alloc(removed.heap, <<>>)
        pushed == WriteArray(
                     WriteArray(
                        WriteArray(versionChanged.heap, added.ref,
                                   AddedFrom(oldComponents, newComponents, 1)),
                        versionChanged.ref,
                        VersionChangedFrom(oldComponents, newComponents, 1)),
                     removed.ref, RemovedFrom(oldComponents, newComponents, 1))
    IN Bind(pushed, LAMBDA h3 :
          Bind(WriteArray(
                  WriteArray(
                     WriteArray(h3, added.ref, SortByName(h3[added.ref])),
                     removed.ref, SortByName(h3[removed.ref])),
                  versionChanged.ref, SortByName(h3[versionChanged.ref])),
               LAMBDA h6 :
                  [heap |-> h6,
                   response |-> SuccessEnvelope(
                       [added |-> h6[added.ref],
                        removed |-> h6[removed.ref],
                        version_changed |-> h6[versionChanged.ref]],
                       timestamp)]))

sbomDiffObj(h, old, new, timestamp) ==
    IF NormalizeThrows(h[old])
    THEN [heap |-> h,
          response |-> ErrorEnvelope("INTERNAL_ERROR",
                                     <<"Failed to diff SBOMs: ", NotIterable>>, timestamp)]
    ELSE Bind(normalizeComponentsObj(h, old), LAMBDA no :
            IF NormalizeThrows(h[new])
            THEN [heap |-> no.heap,
                  response |-> ErrorEnvelope("INTERNAL_ERROR",
                                             <<"Failed to diff SBOMs: ", NotIterable>>, timestamp)]
            ELSE Bind(normalizeComponentsObj(no.heap, new), LAMBDA nn :
                    Bind(<<MapOfObjects(nn.heap, no.map), MapOfObjects(nn.heap, nn.map)>>,
                         LAMBDA maps : DiffOfMaps(nn.heap, maps[1], maps[2], timestamp))))

----------------------------------------------------------------------------
(* The two operations called on documents that live in heap *)

InitObjects ==
    /\ pc = "ready"
    /\ entry = "none"
    /\ deps = None /\ component = None /\ index = 0 /\ pkg = None
    /\ loops = <<>>
    /\ req = None /\ res = <<>>
    /\ result = None
    /\ \/ \E docs \in SeqsUpTo(MergeDocPool, MaxDocs) :
             /\ heap = LoadDocs(<<>>, docs, 1, <<>>).heap
             /\ sboms = LoadDocs(<<>>, docs, 1, <<>>).refs
             /\ format \in SbomFormats
             /\ oldSbom = 0 /\ newSbom = 0
       \/ \E old \in DiffDocPool, new \in DiffDocPool :
             /\ heap = LoadDocs(<<>>, <<old, new>>, 1, <<>>).heap
             /\ oldSbom = LoadDocs(<<>>, <<old, new>>, 1, <<>>).refs[1]
             /\ newSbom = LoadDocs(<<>>, <<old, new>>, 1, <<>>).refs[2]
             /\ sboms = <<>> /\ format = "none"

MergeCallObj ==
    /\ pc = "ready"
    /\ format \in SbomFormats
    /\ \E timestamp \in Timestamps, uuid \in Uuids :
          /\ heap' = sbomMergeObj(heap, sboms, format, timestamp, uuid).heap
          /\ result' = sbomMergeObj(heap, sboms, format, timestamp, uuid).response
    /\ pc' = "done"
    /\ entry' = "sbomMerge:objects"
    /\ UNCHANGED <<sboms, format, deps, oldSbom, newSbom, component, index, pkg, loops,
                   req, res>>

DiffCallObj ==
    /\ pc = "ready"
    /\ format = "none"
    /\ \E timestamp \in Timestamps :
          /\ heap' = sbomDiffObj(heap, oldSbom, newSbom, timestamp).heap
          /\ result' = sbomDiffObj(heap, oldSbom, newSbom, timestamp).response
    /\ pc' = "done"
    /\ entry' = "sbomDiff:objects"
    /\ UNCHANGED <<sboms, format, deps, oldSbom, newSbom, component, index, pkg, loops,
                   req, res>>

NextObjects == MergeCallObj \/ DiffCallObj

SpecObjects == InitObjects /\ [][NextObjects]_vars

\* the object-level operations return what the value-level operations return
\* for the documents the objects stand for
ObjectsAgreeWithValues ==
    /\ (pc = "done" /\ entry = "sbomMerge:objects") =>
          \E timestamp \in Timestamps, uuid \in Uuids :
             result = sbomMerge([i \in 1..Len(sboms) |-> DocValue(heap, sboms[i])],
                                format, timestamp, uuid)
    /\ (pc = "done" /\ entry = "sbomDiff:objects") =>
          \E timestamp \in Timestamps :
             result = sbomDiff(DocValue(heap, oldSbom), DocValue(heap, newSbom), timestamp)

\* C15: sbomMerge and sbomDiff write to no object that existed before the
\* call: every input document, its list and every entry of the list have the
\* same fields and values after the call as before, and the arguments still
\* refer to the same objects, for every input and output format.
C15_InputsNotMutated ==
    [][(pc = "ready" /\ pc' = "done") =>
          /\ Len(heap') >= Len(heap)
          /\ \A r \in 1..Len(heap) : heap'[r] = heap[r]
          /\ sboms' = sboms /\ oldSbom' = oldSbom /\ newSbom' = newSbom]_vars

\* C15 witness: sbomMerge returned a package-centric document made from a
\* component-centric input whose component carries a purl, so the converter
\* allocated a package and assigned to its fields.
C15_Witness ==
    /\ pc = "done" /\ entry = "sbomMerge:objects"
    /\ format = "spdx"
    /\ Len(sboms) = 1
    /\ isCycloneDxSbom(heap[sboms[1]]) /\ ListField(heap[sboms[1]]) = "components"
    /\ Len(heap[heap[sboms[1]].components]) >= 1
    /\ Truthy(heap[heap[heap[sboms[1]].components][1]].purl)
    /\ result.ok
    /\ Len(heap) > sboms[1] + 2

----------------------------------------------------------------------------
(* Repeated calls *)

\* a document without its serial number / namespace and its timestamp
StripDoc(doc) ==
    IF isCycloneDxSbom(doc)
    THEN [doc EXCEPT !.serialNumber = "fresh", !.metadata.timestamp = "fresh"]
    ELSE [doc EXCEPT !.documentNamespace = "fresh", !.creationInfo.created = "fresh"]

\* a response without the identifiers and timestamps generated by the call
StripFresh(r) ==
    IF r.ok /\ "sbom" \in DOMAIN r.data
    THEN [r EXCEPT !.meta.retrieved_at = "fresh", !.data.sbom = StripDoc(@)]
    ELSE [r EXCEPT !.meta.retrieved_at = "fresh"]

\* the answered call made once more on the same input, with the clock and
\* the random generator yielding timestamp, created and uuid
SameCallAgain(timestamp, created, uuid) ==
    CASE entry = "sbomFromDependencies" ->
            sbomFromDependencies(deps, format, timestamp, created, uuid)
      [] entry = "server:sbom_from_dependencies" ->
            ServerCallToolCreate(deps, format, timestamp, created, uuid)
      [] entry = "http:sbom_from_dependencies" ->
            HttpToolsCallCreate(deps, format, timestamp, created, uuid)
      [] entry = "sbomMerge" -> sbomMerge(sboms, format, timestamp, uuid)
      [] entry = "server:sbom_merge" -> ServerCallToolMerge(sboms, format, timestamp, uuid)
      [] entry = "http:sbom_merge" -> HttpToolsCallMerge(sboms, format, timestamp, uuid)
      [] entry = "sbomDiff" -> sbomDiff(oldSbom, newSbom, timestamp)
      [] entry = "server:sbom_diff" -> ServerCallToolDiff(oldSbom, newSbom, timestamp)
      [] entry = "http:sbom_diff" -> HttpToolsCallDiff(oldSbom, newSbom, timestamp)

\* C16: a second call of the same operation on the same input, whatever the
\* clock and the random generator yield, returns a response equal to the first
\* in every field but the serial number / document namespace and the
\* timestamps; so every purl, identifier of a package, bom-ref and diff entry
\* is a function of the input alone.
C16_SameInputSameOutput ==
    (pc = "done" /\ entry \in OperationEntries) =>
        \A timestamp \in Timestamps, created \in Timestamps, uuid \in Uuids :
            StripFresh(SameCallAgain(timestamp, created, uuid)) = StripFresh(result)

\* C16 witness: sbomFromDependencies built a component-centric document, and a
\* second call on the same dependencies returns a different response (another
\* serial number or timestamp).
C16_Witness ==
    /\ pc = "done" /\ entry = "sbomFromDependencies"
    /\ format = "cyclonedx" /\ Len(deps) = 2
    /\ result.ok
    /\ \E timestamp \in Timestamps, created \in Timestamps, uuid \in Uuids :
          /\ SameCallAgain(timestamp, created, uuid) # result
          /\ SameCallAgain(timestamp, created, uuid).data.sbom.serialNumber
                # result.data.sbom.serialNumber

----------------------------------------------------------------------------
(* HTTP transport *)

PathMcp == <<"/", "m", "c", "p">>
PathHealth == <<"/", "h", "e", "a", "l", "t", "h">>
Localhost == <<"l", "o", "c", "a", "l", "h", "o", "s", "t">>

\* position of the first character of s at or after i that is in stops,
\* Len(s) + 1 when there is none
RECURSIVE FirstOf(_, _, _)
FirstOf(s, i, stops) ==
    IF i > Len(s) THEN Len(s) + 1
    ELSE IF s[i] \in stops THEN i
    ELSE FirstOf(s, i + 1, stops)

HostChars == LowerLetters \cup UpperLetters \cup Digits \cup {".", "-"}

\* host[:port] as the URL parser accepts it: a non-empty host without
\* forbidden characters, a port made of digits
ValidHost(h) ==
    LET colon == FirstOf(h, 1, {":"})
    IN /\ colon > 1
       /\ \A i \in 1..(colon - 1) : h[i] \in HostChars
       /\ \A i \in (colon + 1)..Len(h) : h[i] \in Digits

\* the path of a request target, up to the query or fragment
PathOf(target) ==
    IF FirstOf(target, 1, {"?", "#"}) = 1 THEN <<"/">>
    ELSE SubSeq(target, 1, FirstOf(target, 1, {"?", "#"}) - 1)

\* new URL(req.url, `http://${req.headers.host || 'localhost'}`): fails
\* (TypeError) when the base is not a URL, or when the target starts with
\* "//" and the host that follows is empty or not a host
ParseUrl(target, hostHeader) ==
    LET base == IF Truthy(hostHeader) THEN hostHeader ELSE Localhost
    IN IF ~ValidHost(base) THEN [ok |-> FALSE, pathname |-> <<>>]
       ELSE IF Len(target) >= 2 /\ target[1] = "/" /\ target[2] = "/"
       THEN LET end == FirstOf(target, 3, {"/", "?", "#"})
            IN IF ~ValidHost(SubSeq(target, 3, end - 1))
               THEN [ok |-> FALSE, pathname |-> <<>>]
               ELSE [ok |-> TRUE, pathname |-> PathOf(SubSeq(target, end, Len(target)))]
       ELSE [ok |-> TRUE, pathname |-> PathOf(target)]

JsonHeaders == ("content-type" :> "application/json")
               @@ ("content-length" :> "Buffer.byteLength(body)")

\* sendJson(res, statusCode, data): one response written
sendJson(statusCode, data) == <<[status |-> statusCode, headers |-> JsonHeaders, body |-> data]>>

handleHealthCheck(timestamp) ==
    sendJson(200, [ok |-> TRUE,
                   data |-> [status |-> "healthy", server |-> "sbom-tools",
                             version |-> "1.0.0"],
                   meta |-> [retrieved_at |-> timestamp]])

handleNotFound(timestamp) ==
    sendJson(404, [ok |-> FALSE,
                   error |-> [code |-> "NOT_FOUND",
                              message |-> "Endpoint not found. Available endpoints: /mcp, /health"],
                   meta |-> [retrieved_at |-> timestamp]])

handleMethodNotAllowed(timestamp) ==
    sendJson(405, [ok |-> FALSE,
                   error |-> [code |-> "METHOD_NOT_ALLOWED", message |-> "Method not allowed"],
                   meta |-> [retrieved_at |-> timestamp]])

ToolResult(id, envelope) ==
    [jsonrpc |-> "2.0", id |-> id,
     result |-> [content |-> <<[type |-> "text", text |-> envelope]>>]]

\* handleJsonRpcRequest: the JSON-RPC response to one request object
handleJsonRpcRequest(request, timestamp, created, uuid) ==
    CASE request.method = "initialize" ->
            [jsonrpc |-> "2.0", id |-> request.id,
             result |-> [protocolVersion |-> "2024-11-05",
                         capabilities |-> [tools |-> <<>>],
                         serverInfo |-> [name |-> "sbom-tools", version |-> "1.0.0"]]]
      [] request.method = "tools/list" ->
            [jsonrpc |-> "2.0", id |-> request.id,
             result |-> [tools |-> <<"sbom_from_dependencies", "sbom_merge", "sbom_diff">>]]
      [] request.method = "tools/call" ->
            LET args == request.params.arguments
            IN CASE request.params.name = "sbom_from_dependencies" ->
                       ToolResult(request.id,
                                  HttpToolsCallCreate(args.deps, args.format,
                                                      timestamp, created, uuid))
                 [] request.params.name = "sbom_merge" ->
                       ToolResult(request.id,
                                  HttpToolsCallMerge(args.sboms, args.format, timestamp, uuid))
                 [] request.params.name = "sbom_diff" ->
                       ToolResult(request.id,
                                  HttpToolsCallDiff(args.old_sbom, args.new_sbom, timestamp))
                 [] OTHER ->
                       [jsonrpc |-> "2.0", id |-> request.id,
                        error |-> [code |-> -32601, message |-> "Unknown tool"]]
      [] OTHER ->
            [jsonrpc |-> "2.0", id |-> request.id,
             error |-> [code |-> -32601, message |-> "Method not found"]]

\* handleMcpRequest: JSON.parse(body) throws on malformed text, and reading
\* request.jsonrpc throws when the body is the JSON text null
handleMcpRequest(body, timestamp, created, uuid) ==
    IF body.kind \in {"malformed", "null"}
    THEN sendJson(500, [jsonrpc |-> "2.0", id |-> 0,
                        error |-> [code |-> -32603, message |-> "Internal error"]])
    ELSE IF ~("jsonrpc" \in DOMAIN body.value /\ body.value.jsonrpc = "2.0")
    THEN sendJson(400, [jsonrpc |-> "2.0",
                        id |-> IF "id" \in DOMAIN body.value THEN body.value.id ELSE 0,
                        error |-> [code |-> -32600,
                                   message |-> "Invalid Request: missing or invalid jsonrpc version"]])
    ELSE sendJson(200, handleJsonRpcRequest(body.value, timestamp, created, uuid))

\* the 'request' listener of createHttpServer: the responses written for one
\* request.  The URL is parsed before the try block, so a failure of new URL
\* leaves the listener without a response written.  req.method is one of
\* Node's method tokens, which are upper case already.
handleRequest(request, timestamp, created, uuid) ==
    LET url == ParseUrl(request.url, request.host)
    IN IF ~url.ok THEN <<>>
       ELSE IF url.pathname = PathMcp
       THEN IF request.method = "POST"
            THEN handleMcpRequest(request.body, timestamp, created, uuid)
            ELSE handleMethodNotAllowed(timestamp)
       ELSE IF url.pathname = PathHealth
       THEN IF request.method = "GET"
            THEN handleHealthCheck(timestamp)
            ELSE handleMethodNotAllowed(timestamp)
       ELSE handleNotFound(timestamp)

----------------------------------------------------------------------------
(* Requests to the HTTP server *)

Methods == {"GET", "POST", "OPTIONS", "PUT"}

\* /mcp, /health, /x, /mcp?a, /mcp/, //h/mcp (a host before the path) and //
Targets ==
    { PathMcp, PathHealth, <<"/", "x">>,
      PathMcp \o <<"?", "a">>,
      PathMcp \o <<"/">>,
      <<"/", "/", "h">> \o PathMcp,
      <<"/", "/">> }

\* no Host header, h, h:1 and a Host header with a space in it
HostHeaders == {Undefined, <<"h">>, <<"h", ":", "1">>, <<"a", " ", "b">>}

RpcRequest(method, params) ==
    [kind |-> "object",
     value |-> [jsonrpc |-> "2.0", id |-> 1, method |-> method, params |-> params]]

ToolCall(name, arguments) ==
    RpcRequest("tools/call", [name |-> name, arguments |-> arguments])

Bodies ==
    { [kind |-> "malformed", value |-> <<>>],
      [kind |-> "null", value |-> <<>>],
      [kind |-> "object", value |-> [id |-> 1, method |-> "initialize"]],
      RpcRequest("initialize", <<>>),
      RpcRequest("tools/list", <<>>),
      RpcRequest("resources/list", <<>>),
      ToolCall("sbom_from_dependencies",
               [deps |-> <<Dependency(EcosystemNpm, NameA, Version1, Undefined)>>,
                format |-> "spdx"]),
      ToolCall("sbom_from_dependencies", [deps |-> <<>>, format |-> "spdx"]),
      ToolCall("sbom_merge",
               [sboms |-> <<CycloneDxDoc(<<CycloneDxComponent(NameA, Version1, PurlA1)>>)>>,
                format |-> "cyclonedx"]),
      ToolCall("sbom_diff",
               [old_sbom |-> CycloneDxDoc(<<>>),
                new_sbom |-> SpdxDoc(<<SpdxPackage(NameA, Version1, SpdxIdA1, NoList)>>)]),
      ToolCall("sbom_lint", <<>>) }

InitHttp ==
    /\ pc = "ready"
    /\ entry = "none"
    /\ req \in [method : Methods, url : Targets, host : HostHeaders, body : Bodies]
    /\ res = <<>>
    /\ sboms = None /\ format = "none" /\ deps = None
    /\ oldSbom = None /\ newSbom = None
    /\ component = None /\ index = 0 /\ pkg = None
    /\ heap = <<>>
    /\ loops = <<>>
    /\ result = None

\* the server handles the request
HttpRequest ==
    /\ pc = "ready"
    /\ \E timestamp \in Timestamps, created \in Timestamps, uuid \in Uuids :
          res' = handleRequest(req, timestamp, created, uuid)
    /\ pc' = "done"
    /\ entry' = "http:request"
    /\ UNCHANGED <<sboms, format, deps, oldSbom, newSbom, component, index, pkg, heap, loops,
                   req, result>>

NextHttp == HttpRequest

SpecHttp == InitHttp /\ [][NextHttp]_vars

HttpDone == pc = "done" /\ entry = "http:request"

\* the request names a host that is one, and a target that is a plain path
PlainRequest ==
    /\ req.host \in {Undefined, <<"h">>, <<"h", ":", "1">>}
    /\ req.url \in {PathMcp, PathHealth, <<"/", "x">>, PathMcp \o <<"/">>}

\* the routing of the requests whose URL the server can parse
RoutingOfParsedRequests ==
    (HttpDone /\ ParseUrl(req.url, req.host).ok) =>
        /\ Len(res) = 1
        /\ (ParseUrl(req.url, req.host).pathname = PathMcp /\ req.method # "POST")
              => res[1].status = 405
        /\ (ParseUrl(req.url, req.host).pathname = PathHealth /\ req.method = "GET")
              => /\ res[1].status = 200
                 /\ res[1].body.ok = TRUE
                 /\ res[1].body.data.status = "healthy"
        /\ ParseUrl(req.url, req.host).pathname \notin {PathMcp, PathHealth}
              => /\ res[1].status = 404
                 /\ res[1].body.ok = FALSE
                 /\ res[1].body.error.code = "NOT_FOUND"

\* C17: every request receives exactly one response; a request on /mcp with
\* a method other than POST is answered 405, GET /health is answered 200 with
\* ok true and status "healthy", and a request on any other path is answered
\* 404 with a failure body of code NOT_FOUND.
C17_HttpRouting ==
    HttpDone =>
        /\ Len(res) = 1
        /\ RoutingOfParsedRequests

\* C18: an OPTIONS request to /mcp is answered with status 204 and the
\* headers access-control-allow-origin "*" and access-control-allow-methods
\* naming POST.
C18_CorsPreflight ==
    (HttpDone /\ req.method = "OPTIONS" /\ req.url = PathMcp /\ PlainRequest) =>
        /\ Len(res) = 1
        /\ res[1].status = 204
        /\ "access-control-allow-origin" \in DOMAIN res[1].headers
        /\ res[1].headers["access-control-allow-origin"] = "*"
        /\ "access-control-allow-methods" \in DOMAIN res[1].headers

----------------------------------------------------------------------------
(* Which of several entries with one key a merge keeps *)

EntryKey(e) ==
    componentKey(e.name, IF "versionInfo" \in DOMAIN e THEN e.versionInfo ELSE e.version)

\* the entries of all documents, in document order and then list order
RECURSIVE FlatEntries(_, _)
FlatEntries(docs, i) ==
    IF i > Len(docs) THEN <<>>
    ELSE MergedList(docs[i]) \o FlatEntries(docs, i + 1)

\* the earliest entry of the list that has the key
FirstWithKey(flat, k) ==
    flat[CHOOSE i \in 1..Len(flat) :
            /\ EntryKey(flat[i]) = k
            /\ \A j \in 1..(i - 1) : EntryKey(flat[j]) # k]

AllCycloneDx(docs) ==
    \A i \in 1..Len(docs) :
        /\ "bomFormat" \in DOMAIN docs[i] /\ docs[i].bomFormat = "CycloneDX"
        /\ "components" \in DOMAIN docs[i]

AllSpdx(docs) ==
    \A i \in 1..Len(docs) :
        /\ "bomFormat" \notin DOMAIN docs[i]
        /\ "spdxVersion" \in DOMAIN docs[i]
        /\ "packages" \in DOMAIN docs[i]

\* C19: when the input documents of a merge are all of one format, the
\* output has exactly one entry for each name@version key of the inputs, and
\* that entry is the earliest one with the key (first document that has the
\* key, first occurrence within it), copied when the output format is the
\* input format and converted from it otherwise; later entries with the key
\* are discarded.
C19_MergeFirstWins ==
    (MergeReturnedDocument /\ (AllCycloneDx(sboms) \/ AllSpdx(sboms))) =>
        LET flat == FlatEntries(sboms, 1)
            out == MergedList(result.data.sbom)
        IN /\ \A i \in 1..Len(flat) : \E j \in 1..Len(out) : EntryKey(out[j]) = EntryKey(flat[i])
           /\ \A i, j \in 1..Len(out) : i # j => EntryKey(out[i]) # EntryKey(out[j])
           /\ \A j \in 1..Len(out) :
                 /\ \E i \in 1..Len(flat) : EntryKey(flat[i]) = EntryKey(out[j])
                 /\ LET first == FirstWithKey(flat, EntryKey(out[j]))
                    IN IF AllCycloneDx(sboms)
                       THEN IF format = "cyclonedx" THEN out[j] = first
                            ELSE out[j] = cycloneDxToSpdxPackage(first, j - 1)
                       ELSE IF format = "spdx" THEN out[j] = first
                            ELSE out[j] = spdxToCycloneDxComponent(first)

\* C19 witness: a merge of two component-centric documents has returned a
\* document; the first input lists two different entries with one key, and
\* the second input lists an entry with that key that differs from the first
\* entry of the first input.
C19_Witness ==
    /\ MergeReturnedDocument
    /\ Len(sboms) = 2
    /\ AllCycloneDx(sboms)
    /\ Len(sboms[1].components) = 2
    /\ EntryKey(sboms[1].components[1]) = EntryKey(sboms[1].components[2])
    /\ sboms[1].components[1] # sboms[1].components[2]
    /\ Len(sboms[2].components) >= 1
    /\ EntryKey(sboms[2].components[1]) = EntryKey(sboms[1].components[1])
    /\ sboms[2].components[1] # sboms[1].components[1]
    /\ Len(MergedList(result.data.sbom)) = 1

----------------------------------------------------------------------------
(* Which of several entries with one name a comparison uses *)

\* the comparison records of the entries of a document, one per entry, in
\* list order
NormalizedRecords(doc) ==
    IF "bomFormat" \in DOMAIN doc /\ doc.bomFormat = "CycloneDX"
    THEN [i \in 1..Len(doc.components) |->
            NormalizedComponent(doc.components[i].name, doc.components[i].version,
                                doc.components[i].purl)]
    ELSE [i \in 1..Len(doc.packages) |->
            LET p == doc.packages[i]
                purlRef == FindPurlRef(p.externalRefs)
            IN NormalizedComponent(p.name, p.versionInfo,
                                   IF purlRef # 0 THEN p.externalRefs[purlRef].referenceLocator
                                   ELSE Undefined)]

RecordNames(records) == {records[i].name : i \in 1..Len(records)}

FirstOccurrence(records, n) ==
    records[CHOOSE i \in 1..Len(records) :
               /\ records[i].name = n
               /\ \A j \in 1..(i - 1) : records[j].name # n]

LastOccurrence(records, n) ==
    records[CHOOSE i \in 1..Len(records) :
               /\ records[i].name = n
               /\ \A j \in (i + 1)..Len(records) : records[j].name # n]

ListEntry(list, n) == list[CHOOSE i \in 1..Len(list) : list[i].name = n]

\* both documents of the comparison are recognized and carry their list
ComparedDocuments ==
    /\ DiffReturned
    /\ EitherFormat(oldSbom) /\ WellTyped(oldSbom)
    /\ EitherFormat(newSbom) /\ WellTyped(newSbom)

\* the comparison reports, for every name, the version, purl and ecosystem of
\* the occurrence that Pick selects in each document
DiffUses(Pick(_, _)) ==
    ComparedDocuments =>
        LET olds == NormalizedRecords(oldSbom)
            news == NormalizedRecords(newSbom)
        IN /\ \A n \in RecordNames(news) \ RecordNames(olds) :
                 /\ n \in ListNames(result.data.added)
                 /\ ListEntry(result.data.added, n) =
                        [name |-> n, ecosystem |-> Pick(news, n).ecosystem,
                         purl |-> Pick(news, n).purl, oldVersion |-> Undefined,
                         newVersion |-> Pick(news, n).version]
           /\ \A n \in RecordNames(olds) \ RecordNames(news) :
                 /\ n \in ListNames(result.data.removed)
                 /\ ListEntry(result.data.removed, n) =
                        [name |-> n, ecosystem |-> Pick(olds, n).ecosystem,
                         purl |-> Pick(olds, n).purl,
                         oldVersion |-> Pick(olds, n).version,
                         newVersion |-> Undefined]
           /\ \A n \in RecordNames(olds) \cap RecordNames(news) :
                 IF Pick(olds, n).version # Pick(news, n).version
                 THEN /\ n \in ListNames(result.data.version_changed)
                      /\ ListEntry(result.data.version_changed, n) =
                             [name |-> n, ecosystem |-> Pick(news, n).ecosystem,
                              purl |-> Pick(news, n).purl,
                              oldVersion |-> Pick(olds, n).version,
                              newVersion |-> Pick(news, n).version]
                 ELSE n \notin ListNames(result.data.version_changed)

----------------------------------------------------------------------------
(* Comparisons of documents whose purls do and do not name an ecosystem *)

PurlNoScheme == <<"n","p","m","/","b","@","1">>
PurlNoType == <<"p","k","g",":","/","b","@","2">>

EntryComponentPool ==
    { CycloneDxComponent(NameA, Version1, Undefined),
      CycloneDxComponent(NameA, Version2, PurlA2),
      CycloneDxComponent(NameB, Version1, PurlNoScheme),
      CycloneDxComponent(NameB, Version2, PurlNoType) }

EntryPackagePool ==
    { SpdxPackage(NameA, Version2, SpdxIdA1, <<PurlRef(PurlA2)>>),
      SpdxPackage(NameB, Version1, SpdxIdb0, NoList) }

EntryDocPool ==
    {CycloneDxDoc(cs) : cs \in SeqsUpTo(EntryComponentPool, MaxDiffEntries)}
    \cup {SpdxDoc(ps) : ps \in SeqsUpTo(EntryPackagePool, MaxDiffEntries)}

InitDiffEntries ==
    /\ pc = "ready"
    /\ entry = "none"
    /\ oldSbom \in EntryDocPool
    /\ newSbom \in EntryDocPool
    /\ sboms = None /\ format = "none" /\ deps = None
    /\ component = None /\ index = 0 /\ pkg = None
    /\ heap = <<>>
    /\ loops = <<>>
    /\ req = None /\ res = <<>>
    /\ result = None

SpecDiffEntries == InitDiffEntries /\ [][NextDiff]_vars

\* the entry's ecosystem is the one its own purl names
EcosystemOfOwnPurl(e) ==
    /\ e.ecosystem = extractEcosystemFromPurl(e.purl)
    /\ e.purl = Undefined => e.ecosystem = Undefined

\* the document lists the name with this version and this purl
ListsRecord(doc, name, version, purl) ==
    \E i \in 1..Len(NormalizedRecords(doc)) :
        /\ NormalizedRecords(doc)[i].name = name
        /\ NormalizedRecords(doc)[i].version = version
        /\ NormalizedRecords(doc)[i].purl = purl

\* C21: an added entry has the version (and purl) of an entry of the new
\* document as newVersion and no oldVersion; a removed entry has the version
\* (and purl) of an entry of the old document as oldVersion and no newVersion;
\* a version_changed entry has oldVersion from the old document and
\* newVersion, purl from the new document; the ecosystem of every entry is the
\* one extracted from the entry's own purl, absent when the purl is absent or
\* does not match pkg:<segment>/.
C21_DiffEntryFields ==
    DiffReturned =>
        /\ \A i \in 1..Len(result.data.added) :
              LET e == result.data.added[i]
              IN /\ e.oldVersion = Undefined
                 /\ ListsRecord(newSbom, e.name, e.newVersion, e.purl)
                 /\ EcosystemOfOwnPurl(e)
        /\ \A i \in 1..Len(result.data.removed) :
              LET e == result.data.removed[i]
              IN /\ e.newVersion = Undefined
                 /\ ListsRecord(oldSbom, e.name, e.oldVersion, e.purl)
                 /\ EcosystemOfOwnPurl(e)
        /\ \A i \in 1..Len(result.data.version_changed) :
              LET e == result.data.version_changed[i]
              IN /\ \E p \in {NormalizedRecords(oldSbom)[j].purl :
                                 j \in 1..Len(NormalizedRecords(oldSbom))} :
                        ListsRecord(oldSbom, e.name, e.oldVersion, p)
                 /\ ListsRecord(newSbom, e.name, e.newVersion, e.purl)
                 /\ EcosystemOfOwnPurl(e)

\* C21 witness: one comparison reported an added entry whose purl names an
\* ecosystem, a version_changed entry whose purl does not match
\* pkg:<segment>/ and carries no ecosystem, with both versions set.
C21_Witness ==
    /\ DiffReturned
    /\ \E i \in 1..Len(result.data.added) :
          /\ result.data.added[i].purl = PurlA2
          /\ result.data.added[i].ecosystem = <<"n", "p", "m">>
    /\ \E i \in 1..Len(result.data.version_changed) :
          /\ result.data.version_changed[i].purl \in {PurlNoScheme, PurlNoType}
          /\ result.data.version_changed[i].ecosystem = Undefined
          /\ result.data.version_changed[i].oldVersion # Undefined
          /\ result.data.version_changed[i].newVersion # Undefined

----------------------------------------------------------------------------
(* Merges of documents of both formats with several keys *)

\* a@1 and b@1 as components, b@1 and a@2 as packages; the two b@1 differ in
\* their purl
OrderComponentPool ==
    { CycloneDxComponent(NameA, Version1, PurlA1),
      CycloneDxComponent(NameB, Version1, Undefined) }

OrderPackagePool ==
    { SpdxPackage(NameB, Version1, SpdxIdb0, <<PurlRef(PurlB1)>>),
      SpdxPackage(NameA, Version2, SpdxIdA1, NoList) }

OrderDocPool ==
    {CycloneDxDoc(cs) : cs \in SeqsUpTo(OrderComponentPool, MaxEntries)}
    \cup {SpdxDoc(ps) : ps \in SeqsUpTo(OrderPackagePool, MaxEntries)}

InitMergeOrder ==
    /\ pc = "ready"
    /\ entry = "none"
    /\ sboms \in SeqsUpTo(OrderDocPool, MaxDocs)
    /\ format \in SbomFormats
    /\ deps = None /\ oldSbom = None /\ newSbom = None
    /\ component = None /\ index = 0 /\ pkg = None
    /\ heap = <<>>
    /\ loops = <<>>
    /\ req = None /\ res = <<>>
    /\ result = None

SpecMergeOrder == InitMergeOrder /\ [][NextMerge]_vars

\* the entries of the documents of one format, in document and list order
RECURSIVE EntriesTagged(_, _, _)
EntriesTagged(docs, i, fmt) ==
    IF i > Len(docs) THEN <<>>
    ELSE (IF fmt = "cyclonedx"
             /\ "bomFormat" \in DOMAIN docs[i] /\ docs[i].bomFormat = "CycloneDX"
          THEN docs[i].components
          ELSE IF fmt = "spdx" /\ "bomFormat" \notin DOMAIN docs[i]
                  /\ "spdxVersion" \in DOMAIN docs[i] /\ docs[i].spdxVersion = "SPDX-2.3"
          THEN docs[i].packages
          ELSE <<>>)
         \o EntriesTagged(docs, i + 1, fmt)

\* the entries that are the first of the list with their key
RECURSIVE FirstOccurrences(_, _)
FirstOccurrences(flat, i) ==
    IF i > Len(flat) THEN <<>>
    ELSE (IF \E j \in 1..(i - 1) : EntryKey(flat[j]) = EntryKey(flat[i])
          THEN <<>> ELSE <<flat[i]>>)
         \o FirstOccurrences(flat, i + 1)

OtherFormat(fmt) == IF fmt = "cyclonedx" THEN "spdx" ELSE "cyclonedx"

\* the distinct entries the inputs hold in the output format
NativeEntries(docs, fmt) == FirstOccurrences(EntriesTagged(docs, 1, fmt), 1)

\* the distinct entries of the other format whose key no entry of the output
\* format has
ForeignEntries(docs, fmt) ==
    LET native == NativeEntries(docs, fmt)
        NoNative(e) == \A i \in 1..Len(native) : EntryKey(native[i]) # EntryKey(e)
    IN SelectSeq(FirstOccurrences(EntriesTagged(docs, 1, OtherFormat(fmt)), 1), NoNative)

\* C22: the output of sbomMerge lists first the entries that were in the
\* output format, in order of first occurrence, then the entries converted
\* from the other format, in order of first occurrence; in a package-centric
\* output the k-th converted package (k from 0) has the index suffix n + k,
\* n the number of distinct package-centric entries of the inputs.
C22_MergeOrderAndIndex ==
    MergeReturnedDocument =>
        LET native == NativeEntries(sboms, format)
            foreign == ForeignEntries(sboms, format)
            n == Len(native)
            out == MergedList(result.data.sbom)
        IN /\ Len(out) = n + Len(foreign)
           /\ \A i \in 1..n : out[i] = native[i]
           /\ \A k \in 0..(Len(foreign) - 1) :
                 IF format = "spdx"
                 THEN /\ out[n + k + 1] = cycloneDxToSpdxPackage(foreign[k + 1], n + k)
                      /\ out[n + k + 1].SPDXID =
                            SpdxRefPackage \o sanitizeSpdxId(foreign[k + 1].name)
                               \o <<"-">> \o NumToString(n + k)
                 ELSE out[n + k + 1] = spdxToCycloneDxComponent(foreign[k + 1])

\* C22 witness: a package-centric merge returned a document with one package
\* that was a package already, followed by two converted components.
C22_Witness ==
    /\ MergeReturnedDocument
    /\ format = "spdx"
    /\ Len(NativeEntries(sboms, format)) = 1
    /\ Len(ForeignEntries(sboms, format)) = 2
    /\ Len(MergedList(result.data.sbom)) = 3

----------------------------------------------------------------------------
(* Exceptions raised inside the operations *)

\* a document with a recognized format tag and without the list of that format
TaggedWithoutList(doc) ==
    \/ /\ "bomFormat" \in DOMAIN doc /\ doc.bomFormat = "CycloneDX"
       /\ "components" \notin DOMAIN doc
    \/ /\ ~("bomFormat" \in DOMAIN doc /\ doc.bomFormat = "CycloneDX")
       /\ "spdxVersion" \in DOMAIN doc /\ doc.spdxVersion = "SPDX-2.3"
       /\ "packages" \notin DOMAIN doc

\* the answered call reached the operation, which raised an exception
OperationRaises ==
    /\ pc = "done"
    /\ entry \in OperationEntries
    /\ entry \in HandlerEntries => ~ArgumentsFailSchema
    /\ IF entry \in CreateEntries
       THEN \E i \in 1..Len(deps) :
               \/ \E j \in 1..Len(deps[i].name) : deps[i].name[j] = LoneSurrogate
               \/ \E j \in 1..Len(deps[i].version) : deps[i].version[j] = LoneSurrogate
       ELSE IF entry \in MergeEntries
       THEN Len(sboms) > 0 /\ \E i \in 1..Len(sboms) : TaggedWithoutList(sboms[i])
       ELSE TaggedWithoutList(oldSbom) \/ TaggedWithoutList(newSbom)

ThrownMessage == IF entry \in CreateEntries THEN UriMalformed ELSE NotIterable

\* C23: when an exception is raised inside sbomFromDependencies, sbomMerge or
\* sbomDiff, the call returns a failure envelope with code INTERNAL_ERROR
\* whose message contains the message of the exception, and no data (no
\* partial document, no partial diff).
C23_ExceptionBecomesInternalError ==
    OperationRaises =>
        /\ result.ok = FALSE
        /\ result.error.code = "INTERNAL_ERROR"
        /\ \E i \in 1..Len(result.error.message) : result.error.message[i] = ThrownMessage
        /\ "data" \notin DOMAIN result

\* C23 witness: sbomMerge was called with a document that lists an entry,
\* followed by a tagged document without its list, and answered with the
\* failure envelope of an internal error.
C23_Witness ==
    /\ OperationRaises
    /\ entry = "sbomMerge"
    /\ Len(sboms) = 2
    /\ ~TaggedWithoutList(sboms[1])
    /\ Len(EntryPairsSeq(sboms[1])) >= 1
    /\ TaggedWithoutList(sboms[2])
    /\ result.error.code = "INTERNAL_ERROR"

----------------------------------------------------------------------------
(* The merge key and the pairs it stands for *)

InputPairs(docs) == UNION {EntryPairs(docs[i]) : i \in 1..Len(docs)}

\* C25: two entries of the inputs of sbomMerge that differ in name or in
\* version have different keys name + "@" + version, and both are in the
\* output, also when a name or a version contains "@".
C25_MergeKeyInjective ==
    (MergeReturnedDocument /\ \A i \in 1..Len(sboms) : EitherFormat(sboms[i])) =>
        \A p, q \in InputPairs(sboms) :
            p # q =>
               /\ componentKey(p[1], p[2]) # componentKey(q[1], q[2])
               /\ p \in EntryPairs(result.data.sbom)
               /\ q \in EntryPairs(result.data.sbom)

----------------------------------------------------------------------------
(* One key in documents of both formats *)

HasKey(flat, k) == \E i \in 1..Len(flat) : EntryKey(flat[i]) = k

\* C26: for a key that an input of the output format contains, the output
\* entry is the (first) entry of that format, wherever the documents of the
\* other format stand in the input list; an entry of the other format is
\* converted only for a key that no input of the output format contains.
C26_OutputFormatWins ==
    MergeReturnedDocument =>
        LET native == EntriesTagged(sboms, 1, format)
            foreign == EntriesTagged(sboms, 1, OtherFormat(format))
            out == MergedList(result.data.sbom)
        IN \A j \in 1..Len(out) :
              IF HasKey(native, EntryKey(out[j]))
              THEN out[j] = FirstWithKey(native, EntryKey(out[j]))
              ELSE /\ HasKey(foreign, EntryKey(out[j]))
                   /\ IF format = "cyclonedx"
                      THEN out[j] = spdxToCycloneDxComponent(
                                       FirstWithKey(foreign, EntryKey(out[j])))
                      ELSE \E idx \in 0..Len(out) :
                              out[j] = cycloneDxToSpdxPackage(
                                          FirstWithKey(foreign, EntryKey(out[j])), idx)

\* C26 witness: a component-centric merge of a package-centric document
\* followed by a component-centric document that both hold the key b@1, with
\* different purls, returned the component.
C26_Witness ==
    /\ MergeReturnedDocument
    /\ format = "cyclonedx"
    /\ Len(sboms) = 2
    /\ sboms[1] = SpdxDoc(<<SpdxPackage(NameB, Version1, SpdxIdb0, <<PurlRef(PurlB1)>>)>>)
    /\ sboms[2] = CycloneDxDoc(<<CycloneDxComponent(NameB, Version1, Undefined)>>)
    /\ MergedList(result.data.sbom) = <<CycloneDxComponent(NameB, Version1, Undefined)>>

----------------------------------------------------------------------------
(* A document is built from dependencies and then compared with an empty one *)

EcosystemWithSlash == <<"a", "/", "b">>

\* ecosystems in lower case, in upper case and with a "/" in them
EcosystemDependencyPool ==
    { Dependency(EcosystemNpm, NameA, Version1, Undefined),
      Dependency(EcosystemUpperNpm, NameB, Version1, Undefined),
      Dependency(EcosystemWithSlash, NameA, Version2, Undefined),
      Dependency(EcosystemWithSlash, NameUpperB, Version1, LicenseMIT) }

InitBuildThenDiff ==
    /\ pc = "ready"
    /\ entry = "none"
    /\ deps \in SeqsUpTo(EcosystemDependencyPool, MaxDeps)
    /\ format \in SbomFormats
    /\ sboms = None /\ oldSbom = None /\ newSbom = None
    /\ component = None /\ index = 0 /\ pkg = None
    /\ heap = <<>>
    /\ loops = <<>>
    /\ req = None /\ res = <<>>
    /\ result = None

\* sbomDiff(empty document, the document that sbomFromDependencies returned)
DiffBuilt ==
    /\ pc = "done"
    /\ entry = "sbomFromDependencies"
    /\ result.ok
    /\ oldSbom' = CycloneDxDoc(<<>>)
    /\ newSbom' = result.data.sbom
    /\ \E timestamp \in Timestamps :
          result' = sbomDiff(CycloneDxDoc(<<>>), result.data.sbom, timestamp)
    /\ pc' = "diffed"
    /\ entry' = "sbomDiff"
    /\ UNCHANGED <<sboms, format, deps, component, index, pkg, heap, loops, req, res>>

NextBuildThenDiff == CreateCall \/ DiffBuilt

SpecBuildThenDiff == InitBuildThenDiff /\ [][NextBuildThenDiff]_vars

NonEmptyFields(dep) == dep.ecosystem # <<>> /\ dep.name # <<>> /\ dep.version # <<>>

\* C27: for a dependency with non-empty ecosystem, name and version, the
\* ecosystem that the diff engine extracts from the purl the builder generated
\* is the input ecosystem in lower case; so every entry of the diff of builder
\* output carries the lower-cased ecosystem of a dependency with its name and
\* version.
C27_BuilderEcosystemSurvives ==
    (pc = "diffed" /\ \A i \in 1..Len(deps) : NonEmptyFields(deps[i])) =>
        /\ \A i \in 1..Len(deps) :
              extractEcosystemFromPurl(generatePurl(deps[i])) = toLowerCase(deps[i].ecosystem)
        /\ result.ok
        /\ \A j \in 1..Len(result.data.added) :
              \E i \in 1..Len(deps) :
                 /\ deps[i].name = result.data.added[j].name
                 /\ deps[i].version = result.data.added[j].newVersion
                 /\ result.data.added[j].ecosystem = toLowerCase(deps[i].ecosystem)

----------------------------------------------------------------------------
(* One tool call answered by both entry points: the call-tool handler of   *)
(* the MCP server and tools/call of the HTTP transport                      *)

UnknownToolName == "sbom_export"

CallToolNames == ToolNames \cup {UnknownToolName}

\* the value a call-tool handler returns for an envelope
ToolContent(envelope) == [content |-> <<[type |-> "text", text |-> envelope]>>]

\* the CallToolRequestSchema handler of createServer: switch (name).  The
\* three operations catch what they raise, so the handler's own catch block
\* is not entered.
CallToolHandler(name, args, timestamp, created, uuid) ==
    CASE name = "sbom_from_dependencies" ->
            ToolContent(ServerCallToolCreate(args.deps, args.format,
                                             timestamp, created, uuid))
      [] name = "sbom_merge" ->
            ToolContent(ServerCallToolMerge(args.sboms, args.format, timestamp, uuid))
      [] name = "sbom_diff" ->
            ToolContent(ServerCallToolDiff(args.old_sbom, args.new_sbom, timestamp))
      [] OTHER ->
            ToolContent(ErrorEnvelope("INVALID_INPUT", <<"Unknown tool: ", name>>,
                                      timestamp))

\* request.params.arguments of the call
CallArguments ==
    CASE entry = "sbom_merge" -> [sboms |-> sboms, format |-> format]
      [] entry = "sbom_diff" -> [old_sbom |-> oldSbom, new_sbom |-> newSbom]
      [] OTHER -> [deps |-> deps, format |-> format]

InitCallTool ==
    /\ pc = "ready"
    /\ entry \in CallToolNames
    /\ component = None /\ index = 0 /\ pkg = None
    /\ heap = <<>>
    /\ loops = <<>>
    /\ req = None /\ res = <<>>
    /\ result = None
    /\ \/ /\ entry = "sbom_merge"
          /\ sboms \in SeqsUpTo(MergeToolDocPool, MaxDocs)
          /\ format \in ToolFormats
          /\ deps = None /\ oldSbom = None /\ newSbom = None
       \/ /\ entry = "sbom_diff"
          /\ oldSbom \in DiffDocPool
          /\ newSbom \in DiffDocPool
          /\ sboms = None /\ format = "none" /\ deps = None
       \/ /\ entry \in {"sbom_from_dependencies", UnknownToolName}
          /\ deps \in SeqsUpTo(ToolDependencyPool, MaxDeps)
          /\ format \in ToolFormats
          /\ sboms = None /\ oldSbom = None /\ newSbom = None

\* the MCP server answers the call
ServerAnswersCall ==
    /\ pc = "ready"
    /\ \E timestamp \in Timestamps, created \in Timestamps, uuid \in Uuids :
          res' = <<CallToolHandler(entry, CallArguments, timestamp, created, uuid)>>
    /\ pc' = "server"
    /\ UNCHANGED <<entry, sboms, format, deps, oldSbom, newSbom, component, index, pkg,
                   heap, loops, req, result>>

\* the HTTP transport answers the same call
HttpAnswersCall ==
    /\ pc = "server"
    /\ \E timestamp \in Timestamps, created \in Timestamps, uuid \in Uuids :
          result' = handleJsonRpcRequest(ToolCall(entry, CallArguments).value,
                                         timestamp, created, uuid)
    /\ pc' = "done"
    /\ UNCHANGED <<entry, sboms, format, deps, oldSbom, newSbom, component, index, pkg,
                   heap, loops, req, res>>

NextCallTool == ServerAnswersCall \/ HttpAnswersCall

SpecCallTool == InitCallTool /\ [][NextCallTool]_vars

\* both answers were computed with these readings of the clock and this
\* generated identifier
SameReadings(timestamp, created, uuid) ==
    /\ res[1] = CallToolHandler(entry, CallArguments, timestamp, created, uuid)
    /\ result = handleJsonRpcRequest(ToolCall(entry, CallArguments).value,
                                     timestamp, created, uuid)

\* C28: for every tool name and argument object, known or unknown, valid or
\* schema-invalid, the HTTP transport's tools/call and the MCP server's
\* call-tool handler answer with the same envelope (given the same clock
\* readings and generated identifier): the HTTP response carries a result
\* whose content is the content the server handler returned.
C28_BothEntryPointsAnswerAlike ==
    (pc = "done" /\ entry \in CallToolNames) =>
        \A timestamp \in Timestamps, created \in Timestamps, uuid \in Uuids :
            SameReadings(timestamp, created, uuid) =>
                /\ "result" \in DOMAIN result
                /\ result.result = res[1]

----------------------------------------------------------------------------
(* A merged document is merged again, alone, with the same output format *)

\* sbomMerge([result.data.sbom], format) after a successful sbomMerge(sboms, format)
MergeAgain ==
    /\ pc = "done" /\ entry = "sbomMerge"
    /\ result.ok
    /\ sboms' = <<result.data.sbom>>
    /\ \E timestamp \in Timestamps, uuid \in Uuids :
          result' = sbomMerge(<<result.data.sbom>>, format, timestamp, uuid)
    /\ pc' = "merged"
    /\ UNCHANGED <<entry, format, deps, oldSbom, newSbom, component, index, pkg, heap, loops,
                   req, res>>

NextMergeTwice == MergeCall \/ MergeAgain

SpecMergeTwice == InitMergeOrder /\ [][NextMergeTwice]_vars

\* the entry list of a document of the output format
EntryList(doc) == IF format = "cyclonedx" THEN doc.components ELSE doc.packages

\* C29: merging the single document that a merge returned, again with the
\* same output format, succeeds and yields the same list of entries: the same
\* entries in the same order, with the same fields and the same per-package
\* identifiers.
C29_MergeIdempotent ==
    pc = "merged" =>
        /\ result.ok
        /\ EntryList(result.data.sbom) = EntryList(sboms[1])

\* C29 witness: a package-centric document with a native package followed by
\* a converted one (identifier ending in -1) was merged again and came back
\* with both packages.
C29_Witness ==
    /\ pc = "merged" /\ format = "spdx"
    /\ result.ok
    /\ Len(sboms[1].packages) = 2
    /\ sboms[1].packages[1].SPDXID = SpdxIdb0
    /\ sboms[1].packages[2].SPDXID = SpdxRefPackage \o <<"a", "-", "1">>
    /\ sboms[1].packages[2].versionInfo = Version1
    /\ Len(result.data.sbom.packages) = 2

----------------------------------------------------------------------------
(* Two documents are compared, and then compared again with the arguments  *)
(* exchanged                                                                *)

\* sbomDiff(newSbom, oldSbom) after sbomDiff(oldSbom, newSbom)
DiffSwapped ==
    /\ pc = "done" /\ entry = "sbomDiff"
    /\ oldSbom' = newSbom
    /\ newSbom' = oldSbom
    /\ \E timestamp \in Timestamps : result' = sbomDiff(newSbom, oldSbom, timestamp)
    /\ pc' = "swapped"
    /\ UNCHANGED <<entry, sboms, format, deps, component, index, pkg, heap, loops, req, res>>

NextDiffSwap == DiffCall \/ DiffSwapped

SpecDiffSwap == InitDiff /\ [][NextDiffSwap]_vars

\* the names of a diff list, each with the version in one of its fields
NamesWith(list, field) == {<<list[i].name, list[i][field]>> : i \in 1..Len(list)}

\* the names of a version_changed list with their two versions, the first
\* taken from field from and the second from field to
NamesWithBoth(list, from, to) ==
    {<<list[i].name, list[i][from], list[i][to]>> : i \in 1..Len(list)}

\* the second comparison mirrors the first
Mirrors(first, second) ==
    /\ first.ok <=> second.ok
    /\ first.ok =>
          /\ Len(first.data.added) = Len(second.data.removed)
          /\ NamesWith(first.data.added, "newVersion")
                = NamesWith(second.data.removed, "oldVersion")
          /\ Len(first.data.removed) = Len(second.data.added)
          /\ NamesWith(first.data.removed, "oldVersion")
                = NamesWith(second.data.added, "newVersion")
          /\ Len(first.data.version_changed) = Len(second.data.version_changed)
          /\ NamesWithBoth(first.data.version_changed, "oldVersion", "newVersion")
                = NamesWithBoth(second.data.version_changed, "newVersion", "oldVersion")

\* C30: exchanging the arguments of sbomDiff mirrors its answer: the names
\* in added of diff(a, b) are the names in removed of diff(b, a), each with
\* its newVersion as oldVersion, likewise removed and added, and
\* version_changed lists the same names with oldVersion and newVersion
\* exchanged; one comparison fails exactly when the other does.
C30_DiffAntisymmetric == [][DiffSwapped => Mirrors(result, result')]_vars

\* C30 witness: the exchanged comparison answered with an added entry, a
\* removed entry and a changed version at once.
C30_Witness ==
    /\ pc = "swapped"
    /\ result.ok
    /\ Len(result.data.added) = 1
    /\ Len(result.data.removed) = 1
    /\ Len(result.data.version_changed) = 1

----------------------------------------------------------------------------
(* The three operations step by step: one step for each element a loop     *)
(* visits.  No loop writes to the collection it iterates (the merge loops   *)
(* iterate one Map and write to another), so the list of a loop is fixed    *)
(* when the loop is entered.  Array.prototype.sort and the string methods   *)
(* are library calls and are not stepped.                                   *)

\* a loop that has not started: its name, the list it iterates and the
\* number of elements it has visited
Frame(loop, over) == [loop |-> loop, over |-> over, at |-> 0]

\* an iterator that yields its first element again and again
AdvanceRepeats(frame) == [frame EXCEPT !.at = 1]

\* the iterator of a for...of, map or find yields the next element
Advance(frame) == [frame EXCEPT !.at = @ + 1]

\* the element being visited
Current(frame) == frame.over[frame.at]

\* the loop has no further element to visit; find stops at the first match
Exhausted(frame) ==
    \/ frame.at = Len(frame.over)
    \/ /\ frame.loop = "externalRefs"
       /\ frame.at >= 1
       /\ Current(frame).referenceType = "purl"

Most(s) == SubSeq(s, 1, Len(s) - 1)

\* visiting the element raises: a tagged document without its list is
\* iterated, or generatePurl meets a lone surrogate
Raises(loop, element) ==
    \/ loop = "sboms" /\ MergeThrows(<<element>>)
    \/ loop = "deps" /\ CreateThrows(<<element>>)

\* the loops the body runs for one element, the first to run last
Body(loop, element) ==
    CASE loop = "sboms" ->
            IF isCycloneDxSbom(element)
            THEN <<Frame("components", extractCycloneDxComponents(element)),
                   Frame("sbom.components", element.components)>>
            ELSE IF isSpdxSbom(element)
            THEN <<Frame("packages", extractSpdxPackages(element)),
                   Frame("sbom.packages", element.packages)>>
            ELSE <<>>
      [] loop = "allSpdxPackages" ->
            IF MapHas(CollectCycloneDx(sboms, 1, <<>>), element.key) THEN <<>>
            ELSE <<Frame("externalRefs", element.val.externalRefs)>>
      [] loop = "normalizeSpdxPackages" ->
            <<Frame("externalRefs", element.externalRefs)>>
      [] OTHER -> <<>>

\* the top-level statements of each operation that run loops, in order
Stages ==
    CASE entry = "sbomMerge" -> <<"collect", "convert">>
      [] entry = "sbomDiff" ->
            <<"normalize old", "normalize new", "newComponents", "oldComponents">>
      [] OTHER -> <<"deps">>

StageAfter(stage) ==
    LET k == CHOOSE i \in 1..Len(Stages) : Stages[i] = stage
    IN IF k = Len(Stages) THEN "return" ELSE Stages[k + 1]

NormalizeFrames(sbom) ==
    IF isCycloneDxSbom(sbom) THEN <<Frame("sbom.components", sbom.components)>>
    ELSE IF isSpdxSbom(sbom) THEN <<Frame("normalizeSpdxPackages", sbom.packages)>>
    ELSE <<>>

StageRaises(stage) ==
    \/ stage = "normalize old" /\ NormalizeThrows(oldSbom)
    \/ stage = "normalize new" /\ NormalizeThrows(newSbom)

StageFrames(stage) ==
    CASE stage = "collect" -> <<Frame("sboms", sboms)>>
      [] stage = "convert" ->
            IF format = "cyclonedx"
            THEN <<Frame("allSpdxPackages", CollectSpdx(sboms, 1, <<>>))>>
            ELSE <<Frame("allCycloneDxComponents", CollectCycloneDx(sboms, 1, <<>>))>>
      [] stage = "normalize old" -> NormalizeFrames(oldSbom)
      [] stage = "normalize new" -> NormalizeFrames(newSbom)
      [] stage = "newComponents" -> <<Frame("newComponents", normalizeComponents(newSbom))>>
      [] stage = "oldComponents" -> <<Frame("oldComponents", normalizeComponents(oldSbom))>>
      [] OTHER -> <<Frame("deps", deps)>>

\* a reference that is not a purl
SecurityRef ==
    [referenceCategory |-> "SECURITY", referenceType |-> "cpe23Type",
     referenceLocator |-> <<"c", "p", "e">>]

\* a@1 and b@1 as components; b@1, whose purl is its second reference, a@2
\* and a@1, whose purl is its first reference, as packages
LoopDocPool ==
    { CycloneDxDoc(<<CycloneDxComponent(NameA, Version1, PurlA1),
                     CycloneDxComponent(NameB, Version1, Undefined)>>),
      SpdxDoc(<<SpdxPackage(NameB, Version1, SpdxIdb0, <<SecurityRef, PurlRef(PurlB1)>>),
                SpdxPackage(NameA, Version2, SpdxIdA1, NoList)>>),
      SpdxDoc(<<SpdxPackage(NameA, Version1, SpdxIdA1, <<PurlRef(PurlA1), SecurityRef>>)>>),
      UnrecognizedDoc,
      MalformedDoc }

InitLoops ==
    /\ pc = "ready"
    /\ entry \in {"sbomFromDependencies", "sbomMerge", "sbomDiff"}
    /\ component = None /\ index = 0 /\ pkg = None
    /\ heap = <<>>
    /\ loops = <<>>
    /\ req = None /\ res = <<>>
    /\ result = None
    /\ \/ /\ entry = "sbomMerge"
          /\ sboms \in SeqsUpTo(LoopDocPool, MaxDocs)
          /\ format \in SbomFormats
          /\ deps = None /\ oldSbom = None /\ newSbom = None
       \/ /\ entry = "sbomDiff"
          /\ oldSbom \in LoopDocPool
          /\ newSbom \in LoopDocPool
          /\ sboms = None /\ format = "none" /\ deps = None
       \/ /\ entry = "sbomFromDependencies"
          /\ deps \in SeqsUpTo(ToolDependencyPool, MaxDeps)
          /\ format \in SbomFormats
          /\ sboms = None /\ oldSbom = None /\ newSbom = None

\* return: the call is over, on every path out of the operation
Returns ==
    /\ pc' = "done"
    /\ loops' = <<>>

\* the next top-level statement: its loop is entered, or it raises and the
\* catch block returns
Enters(stage) ==
    IF stage = "return" \/ StageRaises(stage) THEN Returns
    ELSE /\ pc' = stage
         /\ loops' = StageFrames(stage)

\* control of the call: sbomMerge returns at once for an empty list
CallControl ==
    /\ pc = "ready"
    /\ IF entry = "sbomMerge" /\ Len(sboms) = 0 THEN Returns ELSE Enters(Stages[1])

\* control of a visit: the iterator advances and the body's loops are entered
VisitControl ==
    /\ pc \notin {"ready", "done"}
    /\ loops # <<>>
    /\ ~Exhausted(loops[Len(loops)])
    /\ LET frame == Advance(loops[Len(loops)])
       IN IF Raises(frame.loop, Current(frame)) THEN Returns
          ELSE /\ loops' = Most(loops) \o <<frame>> \o Body(frame.loop, Current(frame))
               /\ pc' = pc

LeaveControl ==
    /\ pc \notin {"ready", "done"}
    /\ loops # <<>>
    /\ Exhausted(loops[Len(loops)])
    /\ loops' = Most(loops)
    /\ pc' = pc

ContinueControl ==
    /\ pc \notin {"ready", "done"}
    /\ loops = <<>>
    /\ Enters(StageAfter(pc))

\* the envelope is built by the step that returns
Envelope ==
    IF pc' = "done"
    THEN \E timestamp \in Timestamps, created \in Timestamps, uuid \in Uuids :
            result' = CASE entry = "sbomMerge" -> sbomMerge(sboms, format, timestamp, uuid)
                        [] entry = "sbomDiff" -> sbomDiff(oldSbom, newSbom, timestamp)
                        [] OTHER -> sbomFromDependencies(deps, format, timestamp,
                                                         created, uuid)
    ELSE result' = result

\* the operation is called
Call ==
    /\ CallControl
    /\ Envelope
    /\ UNCHANGED <<entry, sboms, format, deps, oldSbom, newSbom, component, index, pkg,
                   heap, req, res>>

\* the running loop visits its next element and enters the loops of its body
Visit ==
    /\ VisitControl
    /\ Envelope
    /\ UNCHANGED <<entry, sboms, format, deps, oldSbom, newSbom, component, index, pkg,
                   heap, req, res>>

\* the running loop has visited its last element and is left
Leave ==
    /\ LeaveControl
    /\ UNCHANGED <<entry, sboms, format, deps, oldSbom, newSbom, component, index, pkg,
                   heap, req, res, result>>

\* the loops of one top-level statement are over: the next one starts
Continue ==
    /\ ContinueControl
    /\ Envelope
    /\ UNCHANGED <<entry, sboms, format, deps, oldSbom, newSbom, component, index, pkg,
                   heap, req, res>>

NextLoops == Call \/ Visit \/ Leave \/ Continue

SpecLoops == InitLoops /\ [][NextLoops]_vars

\* a step of the call's control
Runs == CallControl \/ VisitControl \/ LeaveControl \/ ContinueControl

\* the operations are synchronous and the runtime runs one call to
\* completion: a call whose control can take a step takes it
SpecLoopsFair == SpecLoops /\ WF_<<pc, loops>>(Runs)

\* no loop has visited more elements than its list holds
WithinLists == \A k \in 1..Len(loops) : loops[k].at <= Len(loops[k].over)

\* a step of a call that does not return either enters the next top-level
\* statement, or leaves a loop, or makes the running loop visit exactly the
\* element after the one it visited before, leaving the outer loops alone
StepsForward ==
    \/ pc' = "done"
    \/ pc' # pc /\ loops = <<>>
    \/ /\ pc' = pc
       /\ loops # <<>>
       /\ \/ loops' = Most(loops)
          \/ /\ Len(loops') >= Len(loops)
             /\ SubSeq(loops', 1, Len(loops) - 1) = Most(loops)
             /\ loops'[Len(loops)].loop = loops[Len(loops)].loop
             /\ loops'[Len(loops)].over = loops[Len(loops)].over
             /\ loops'[Len(loops)].at = loops[Len(loops)].at + 1

\* the envelope is written by the step that ends the call and by no other
ReturnsOnce ==
    /\ pc' = "done" => result'.ok \in BOOLEAN
    /\ pc' # "done" => result' = result

\* C24: every call of build, merge and diff ends, and ends in one returned
\* envelope; on the way no loop visits more elements than its list holds and
\* every step of a loop visits the element after the last one visited, so
\* each loop body runs at most once per element of its list.
C24_EveryCallTerminates ==
    /\ <>(pc = "done")
    /\ []WithinLists
    /\ [][StepsForward /\ ReturnsOnce]_vars

\* C24 witness: a merge to the component-centric format has returned after
\* the search of the external references of a converted package went past a
\* reference that is not a purl.
C24_Witness ==
    /\ pc = "done" /\ entry = "sbomMerge" /\ format = "cyclonedx"
    /\ Len(sboms) = 2
    /\ result.ok
    /\ \E i \in 1..Len(result.data.sbom.components) :
          /\ result.data.sbom.components[i].name = NameB
          /\ result.data.sbom.components[i].purl = PurlB1

====
